---- MODULE Spec2Model ----
(***************************************************************************)
(* A model of guidance's grammar-constrained parser (guidance/_parser.py)  *)
(* and of its generation-state tree, block reconciliation and streaming    *)
(* controller (guidance/models/_base/_model.py).                           *)
(*                                                                         *)
(* Python objects live in heaps: a Model object is an entry of `nodes`,    *)
(* its State object an entry of `states`, and its _active_blocks dict an   *)
(* entry of `dicts`.  A node refers to its state and to its dict by heap   *)
(* index, so that aliasing between a node and its copy is whatever the     *)
(* code of Model.copy makes it.                                            *)
(***************************************************************************)
EXTENDS Integers, Sequences, FiniteSets, TLC

VARIABLES
    \* ---- generation-state tree (module globals and the heap) ----
    nodes,          \* heap of Model objects
    states,         \* heap of State objects: rendered text and capture map
    dicts,          \* heap of _active_blocks dicts: ordered <<block, start>> items
    id_counter,     \* the module global _id_counter
    trace,          \* the trace handler's update_node calls, in order
    returned,       \* the Model objects the caller holds a reference to
    active_blocks,  \* ContextVar _active_blocks in the caller's context
    event_queues,   \* ContextVar _event_queues in the caller's context
    lastT,          \* what the last tree operation was and what it returned
    nops,           \* how many operations the caller has made
    \* ---- streaming controller (ModelStream) ----
    stream,         \* the ModelStream object: model, grammar
    events,         \* the queue.Queue of the iteration, oldest item first
    token,          \* what _event_queues.set returned: the value to reset to
    cpc,            \* where the consumer is in the generator ModelStream.__iter__
    wpc,            \* where the worker thread is in target
    wqueues,        \* ContextVar _event_queues in the worker thread's context
    outbox,         \* nodes the worker's chain sends, not yet put on the queue
    wexc,           \* the exception the worker's chain raised, if any
    wrun,           \* the nodes the worker's chain created, and the one it ended on
    wput,           \* every item the worker has put on the queue, in order
    yielded,        \* the events the iteration has yielded, in order
    cexc,           \* the exception raised out of the iteration, if any
    exit_path,      \* how the consumer left its loop
    copying,        \* where each thread is inside a Model.copy it has begun
    \* ---- grammar-constrained parser (LLParser, ByteParser) ----
    lang,           \* the grammar: the set of byte strings it accepts
    bp,             \* the ByteParser object, with its LLParser and interpreter
    lastP,          \* what the last parser call was and how it ended
    ncalls          \* how many parser calls the caller has made

treeVars == <<nodes, states, dicts, id_counter, trace, returned, active_blocks,
              event_queues, lastT, nops>>

streamVars == <<stream, events, token, cpc, wpc, wqueues, outbox, wexc, wrun, wput,
                yielded, cexc, exit_path, copying>>

parserVars == <<lang, bp, lastP, ncalls>>

vars == <<treeVars, streamVars, parserVars>>

----------------------------------------------------------------------------
(* Bounds of the model *)

MaxOps == 3
MaxLen == 2
MaxInput == 2
MaxCalls == 3
MaxCaptures == 2
MaxBacktrack == 2
MaxEntries == 3

----------------------------------------------------------------------------
(* Values *)

NoId == -1
NoExc == [type |-> "none", msg |-> "", at |-> NoId]
NoName == "None"

Names == {"A", "k", "p"}
Keys == {"k"}

\* Optional fragments of a block, and the values one can append to a node
NoFragment == [kind |-> "none"]
FunctionValue == [kind |-> "function"]
StrValue(t) == [kind |-> "str", text |-> t]

\* MessageChunk kinds of guidance.trace; "Other" stands for any chunk class
\* outside the tuple _apply_chunk tests for
SupportedChunks == {"LiteralInput", "TextOutput", "CaptureOutput",
                    "RoleOpenerInput", "RoleCloserInput", "ImageOutput"}

LiteralInput(t) == [kind |-> "LiteralInput", text |-> t, token_count |-> 0,
                    name |-> NoName]
TextOutput(t) == [kind |-> "TextOutput", text |-> t, token_count |-> 1,
                  name |-> NoName]
CaptureOutput(n, t) == [kind |-> "CaptureOutput", text |-> t, token_count |-> 0,
                        name |-> n]
OtherChunk == [kind |-> "Other", text |-> <<>>, token_count |-> 0, name |-> NoName]

AstValue(cs) == [kind |-> "ast", chunks |-> cs]

\* Items of a stream's queue: a Model object, the None sentinel, or an
\* exception.  `by` records the thread that put the item.
NodeItem(n, by) == [kind |-> "node", ref |-> n, ex |-> NoExc, by |-> by]
NoneItem == [kind |-> "none", ref |-> 0, ex |-> NoExc, by |-> "worker"]
ExcItem(e) == [kind |-> "exc", ref |-> 0, ex |-> e, by |-> "worker"]

----------------------------------------------------------------------------
(* The State object of a node (guidance/models/_base/_state.py): rendered  *)
(* text and capture map.  A capture entry is a scalar {"value", "log_prob"}*)
(* dict or a list of such dicts; both are kept as a sequence of items with *)
(* a flag saying which of the two it is.                                   *)

Slice(text, start) == SubSeq(text, start + 1, Len(text))

ScalarEntry(v, lp) == [list |-> FALSE, items |-> <<[value |-> v, log_prob |-> lp]>>]
ListEntry(vs) ==
    [list |-> TRUE, items |-> [i \in 1..Len(vs) |-> [value |-> vs[i], log_prob |-> "None"]]]

PutKey(captures, key, entry) == (key :> entry) @@ captures
PopKey(captures, key) == [k \in DOMAIN captures \ {key} |-> captures[k]]

StateApplyChunk(st, chunk) ==
    CASE chunk.kind \in {"LiteralInput", "TextOutput", "RoleOpenerInput", "RoleCloserInput"} ->
           [st EXCEPT !.text = st.text \o chunk.text]
      [] chunk.kind = "CaptureOutput" ->
           [st EXCEPT !.captures = PutKey(st.captures, chunk.name, ScalarEntry(chunk.text, "lp"))]
      [] OTHER -> st

\* _parse_tags on a tag-free string, run by the client: one literal chunk
ParseTags(text) == AstValue(<<LiteralInput(text)>>)

----------------------------------------------------------------------------
(* Blocks (guidance/library/_block.py): name, opener, closer *)

BlockDef ==
    [ bA |-> [name |-> "A", opener |-> StrValue(<<"<">>), closer |-> StrValue(<<">">>)],
      bN |-> [name |-> NoName, opener |-> NoFragment, closer |-> NoFragment],
      bF |-> [name |-> "k", opener |-> FunctionValue, closer |-> NoFragment],
      bP |-> [name |-> "p", opener |-> NoFragment, closer |-> NoFragment] ]

Blocks == DOMAIN BlockDef

InDict(d, block) == \E i \in 1..Len(d) : d[i][1] = block
DictPop(d, block) == SelectSeq(d, LAMBDA it : it[1] # block)
\* d[block] = start: a new key goes last, an existing key keeps its place
DictSet(d, block, start) ==
    IF InDict(d, block)
    THEN [i \in 1..Len(d) |-> IF d[i][1] = block THEN <<block, start>> ELSE d[i]]
    ELSE Append(d, <<block, start>>)
Reversed(s) == [i \in 1..Len(s) |-> s[Len(s) + 1 - i]]
InTuple(t, x) == \E i \in 1..Len(t) : t[i] = x

----------------------------------------------------------------------------
(* Model: every operator below takes and returns a run record R: the heap  *)
(* (nodes, states, dicts, id_counter, trace), `self` (the Model object the *)
(* running method has bound to self), `pub` (the objects put on an event   *)
(* queue so far) and `exc` (the exception propagating, if any).  A raised  *)
(* exception leaves the heap as the statements before it left it.         *)

Raised(R) == R.exc.type # "none"
Raise(R, type, msg) == [R EXCEPT !.exc = [type |-> type, msg |-> msg, at |-> R.nodes[R.self].id]]

SelfState(R) == R.states[R.nodes[R.self].state]
SelfText(R) == SelfState(R).text
SelfDict(R) == R.dicts[R.nodes[R.self].ab]

UpdateTraceNode(R, identifier, parent_id, node_attr) ==
    [R EXCEPT !.trace = Append(@, [id |-> identifier, parent_id |-> parent_id,
                                   node_attr |-> node_attr])]

\* A variant of copy in which the State object is shared, not deep-copied
CopySharedState(R) ==
    LET old == R.nodes[R.self]
        obj == [old EXCEPT !.id = R.id_counter, !.parent_id = old.id, !.parent = R.self]
        R1 == [R EXCEPT !.nodes = Append(@, obj),
                        !.id_counter = @ + 1,
                        !.self = Len(R.nodes) + 1]
    IN UpdateTraceNode(R1, obj.id, obj.parent_id, "None")

\* Model.copy: obj.__dict__.update(self.__dict__) shares every attribute
\* object; _state is then deep-copied, _id is fresh, _parent_id and _parent
\* name the original.  The _active_blocks dict stays shared.
Copy(R) ==
    LET old == R.nodes[R.self]
        obj == [old EXCEPT !.state = Len(R.states) + 1,
                           !.id = R.id_counter,
                           !.parent_id = old.id,
                           !.parent = R.self]
        R1 == [R EXCEPT !.nodes = Append(@, obj),
                        !.states = Append(@, R.states[old.state]),
                        !.id_counter = @ + 1,
                        !.self = Len(R.nodes) + 1]
    IN UpdateTraceNode(R1, obj.id, obj.parent_id, "None")

\* Model._send_to_event_queue, with the queues of the running context
SendToEventQueue(R) ==
    IF R.queues # <<>> THEN [R EXCEPT !.pub = Append(@, R.self)] ELSE R

\* Model._apply_chunk, after self = self.copy(): R is the run with the copy
ApplyChunkOnCopy(R, chunk) ==
    LET sref == R.nodes[R.self].state
        R2 == [R EXCEPT !.states[sref] = StateApplyChunk(@, chunk),
                        !.nodes[R.self].token_count =
                            IF chunk.kind = "TextOutput" THEN @ + chunk.token_count ELSE @]
    IN IF chunk.kind \in SupportedChunks
       THEN SendToEventQueue(
                UpdateTraceNode(R2, R.nodes[R.self].id, R.nodes[R.self].parent_id, chunk.kind))
       ELSE Raise(R2, "NotImplementedError", "Unsupported chunk type")

\* Model._apply_chunk
ApplyChunk(R, chunk) == ApplyChunkOnCopy(Copy(R), chunk)

\* Model._apply_node: the client yields the chunks of the node one by one
RECURSIVE ApplyNode(_, _)
ApplyNode(R, chunks) ==
    IF chunks = <<>> \/ Raised(R) THEN R
    ELSE ApplyNode(ApplyChunk(R, Head(chunks)), Tail(chunks))

\* A variant of set that replaces the whole capture map by the one entry
SetOnCopyFreshCaptures(R, key, value) ==
    [R EXCEPT !.states[R.nodes[R.self].state].captures =
                 PutKey(<<>>, key, IF value.list THEN ListEntry(value.vals)
                                   ELSE ScalarEntry(value.vals[1], "None"))]

\* Model.set, after self = self.copy()
SetOnCopy(R, key, value) ==
    [R EXCEPT !.states[R.nodes[R.self].state].captures =
                 PutKey(@, key, IF value.list THEN ListEntry(value.vals)
                                ELSE ScalarEntry(value.vals[1], "None"))]

\* A variant of set that also sends the new node to the event queues
SetAndSend(R, key, value) == SendToEventQueue(SetOnCopy(Copy(R), key, value))

\* Model.set
Set(R, key, value) == SetOnCopy(Copy(R), key, value)

\* Model.remove, after self = self.copy(): captures.pop(key) raises KeyError
\* for an absent key
RemoveOnCopy(R, key) ==
    IF key \in DOMAIN SelfState(R).captures
    THEN [R EXCEPT !.states[R.nodes[R.self].state].captures = PopKey(@, key)]
    ELSE Raise(R, "KeyError", key)

\* Model.remove
Remove(R, key) == RemoveOnCopy(Copy(R), key)

StrVal(t) == [list |-> FALSE, vals |-> <<t>>]

\* Model.__getitem__ and Model.get on the State object st
GetItem(st, key) ==
    LET e == st.captures[key]
    IN [list |-> e.list, vals |-> [i \in 1..Len(e.items) |-> e.items[i].value]]
Get(st, key, default) == IF key \in DOMAIN st.captures THEN GetItem(st, key) ELSE default

\* Model.log_prob
LogProb(st, key, default) ==
    IF key \in DOMAIN st.captures
    THEN LET e == st.captures[key]
         IN [list |-> e.list, vals |-> [i \in 1..Len(e.items) |-> e.items[i].log_prob]]
    ELSE default

\* The chunks the client yields for an opener, closer or appended value
FragmentChunks(v) == IF v.kind = "str" THEN ParseTags(v.text).chunks ELSE v.chunks

NotYetSupported == "Stateful block opener/closer functions are not yet supported"

\* Model._apply_blocks, first loop body: close a block that is not globally
\* active any more
CloseBlock(R, block) ==
    IF ~InTuple(R.active, block)
    THEN LET Rp == [R EXCEPT !.dicts[R.nodes[R.self].ab] = DictPop(@, block)]
             closer == BlockDef[block].closer
         IN CASE closer.kind = "none" -> Rp
              [] closer.kind = "function" -> Raise(Rp, "NotImplementedError", NotYetSupported)
              [] OTHER -> ApplyNode(Rp, FragmentChunks(closer))
    ELSE R

\* Model._apply_blocks, first loop body: update the capture of a named block,
\* closed or not
CaptureBlock(R, block, start_index) ==
    IF ~Raised(R) /\ BlockDef[block].name # NoName
    THEN Set(R, BlockDef[block].name, StrVal(Slice(SelfText(R), start_index)))
    ELSE R

\* Model._apply_blocks, first loop: over list(reversed(self._active_blocks.items()))
RECURSIVE CloseBlocks(_, _)
CloseBlocks(R, items) ==
    IF items = <<>> \/ Raised(R) THEN R
    ELSE CloseBlocks(CaptureBlock(CloseBlock(R, Head(items)[1]), Head(items)[1], Head(items)[2]),
                     Tail(items))

\* Model._apply_blocks, second loop body: open a block that is not yet
\* locally active
OpenBlock(R, block) ==
    IF ~InDict(SelfDict(R), block)
    THEN LET Rd == [R EXCEPT !.dicts[R.nodes[R.self].ab] = DictSet(@, block, Len(SelfText(R)))]
             opener == BlockDef[block].opener
         IN CASE opener.kind = "none" -> Rd
              [] opener.kind = "function" -> Raise(Rd, "NotImplementedError", NotYetSupported)
              [] OTHER -> ApplyNode(Rd, FragmentChunks(opener))
    ELSE R

\* Model._apply_blocks, second loop: over the ambient tuple of active blocks
RECURSIVE OpenBlocks(_, _)
OpenBlocks(R, blocks) ==
    IF blocks = <<>> \/ Raised(R) THEN R
    ELSE OpenBlocks(OpenBlock(R, Head(blocks)), Tail(blocks))

\* Model._apply_blocks, after self = self.copy()
ApplyBlocksOnCopy(R) == OpenBlocks(CloseBlocks(R, Reversed(SelfDict(R))), R.active)

\* Model._apply_blocks
ApplyBlocks(R) == ApplyBlocksOnCopy(Copy(R))

\* Model._update_open_block_captures, loop body
UpdateCapture(R, block, start_index) ==
    IF BlockDef[block].name # NoName
    THEN Set(R, BlockDef[block].name, StrVal(Slice(SelfText(R), start_index)))
    ELSE R

\* Model._update_open_block_captures, the loop over self._active_blocks.items()
RECURSIVE UpdateCaptures(_, _)
UpdateCaptures(R, items) ==
    IF items = <<>> THEN R
    ELSE UpdateCaptures(UpdateCapture(R, Head(items)[1], Head(items)[2]), Tail(items))

\* Model._update_open_block_captures, after self = self.copy()
UpdateCapturesOnCopy(R) == UpdateCaptures(R, SelfDict(R))

\* Model._update_open_block_captures
UpdateOpenBlockCaptures(R) == UpdateCapturesOnCopy(Copy(R))

\* A Function value called with the model: the function that returns its argument
CallFunction(R) == R

\* Model.__add__, after self = self._apply_node(other)
AddAfterNode(R) == IF Raised(R) THEN R ELSE UpdateOpenBlockCaptures(R)

\* Model.__add__, after self = self._apply_blocks()
AddAfterBlocks(R, other) ==
    CASE Raised(R) -> R
      [] other.kind = "str" /\ other.text = <<>> -> R
      [] other.kind = "function" -> CallFunction(R)
      [] OTHER -> AddAfterNode(ApplyNode(R, FragmentChunks(other)))

\* Model.__add__
Add(R, other) == AddAfterBlocks(ApplyBlocks(R), other)

----------------------------------------------------------------------------
(* The inputs the operations are tried on *)

Others ==
    { StrValue(<<>>), StrValue(<<"x">>),
      AstValue(<<TextOutput(<<"y">>), CaptureOutput("k", <<"c">>)>>),
      AstValue(<<LiteralInput(<<"x">>), OtherChunk>>),
      FunctionValue }

SetValues == { StrVal(<<"v">>), [list |-> TRUE, vals |-> << <<"v">>, <<"w">> >>] }

----------------------------------------------------------------------------
(* Operations of the caller's thread on the tree *)

Run(n) ==
    [nodes |-> nodes, states |-> states, dicts |-> dicts, id_counter |-> id_counter,
     trace |-> trace, self |-> n, pub |-> <<>>, exc |-> NoExc,
     active |-> active_blocks, queues |-> event_queues]

\* The heap as a run leaves it
HeapAfter(R) ==
    /\ nodes' = R.nodes
    /\ states' = R.states
    /\ dicts' = R.dicts
    /\ id_counter' = R.id_counter
    /\ trace' = R.trace

\* The caller's thread runs its own code only while it is not inside the
\* generator of a stream
CallerRuns == cpc \in {"idle", "yielded", "done", "raised"}

\* The other variables of the streaming controller
streamRest == <<stream, token, cpc, wpc, wqueues, outbox, wexc, wrun, wput,
                yielded, cexc, exit_path, copying>>

\* The heap after the call, the node it returned (0 when it raised), and the
\* nodes the call has put on the event queue of the caller's context
Commit(R, op, n, arg) ==
    /\ CallerRuns
    /\ nops < MaxOps
    /\ nops' = nops + 1
    /\ HeapAfter(R)
    /\ returned' = IF Raised(R) THEN returned ELSE returned \cup {R.self}
    /\ lastT' = [op |-> op, node |-> n, arg |-> arg,
                 ret |-> IF Raised(R) THEN 0 ELSE R.self, exc |-> R.exc, pub |-> R.pub]
    /\ events' = events \o [i \in 1..Len(R.pub) |-> NodeItem(R.pub[i], "caller")]

AddOp(n, other) ==
    /\ Commit(Add(Run(n), other), "add", n, other)
    /\ UNCHANGED <<active_blocks, event_queues, streamRest, parserVars>>

SetOp(n, key, value) ==
    /\ Commit(Set(Run(n), key, value), "set", n, [key |-> key, value |-> value])
    /\ UNCHANGED <<active_blocks, event_queues, streamRest, parserVars>>

RemoveOp(n, key) ==
    /\ Commit(Remove(Run(n), key), "remove", n, [key |-> key])
    /\ UNCHANGED <<active_blocks, event_queues, streamRest, parserVars>>

CopyOp(n) ==
    /\ Commit(Copy(Run(n)), "copy", n, [key |-> NoName])
    /\ UNCHANGED <<active_blocks, event_queues, streamRest, parserVars>>

\* with block(...): entering the scope appends the block to the ambient tuple
EnterBlock(b) ==
    /\ nops < MaxOps
    /\ nops' = nops + 1
    /\ ~InTuple(active_blocks, b)
    /\ active_blocks' = Append(active_blocks, b)
    /\ CallerRuns
    /\ UNCHANGED <<nodes, states, dicts, id_counter, trace, returned, event_queues, lastT>>
    /\ UNCHANGED <<streamVars, parserVars>>

\* leaving the scope resets the ambient tuple to what it was before
ExitBlock ==
    /\ nops < MaxOps
    /\ nops' = nops + 1
    /\ active_blocks # <<>>
    /\ active_blocks' = SubSeq(active_blocks, 1, Len(active_blocks) - 1)
    /\ CallerRuns
    /\ UNCHANGED <<nodes, states, dicts, id_counter, trace, returned, event_queues, lastT>>
    /\ UNCHANGED <<streamVars, parserVars>>

RootNode == [state |-> 1, ab |-> 1, token_count |-> 0, id |-> 0, parent_id |-> NoId,
             parent |-> 0, echo |-> TRUE]

\* Model.__init__: one root model
InitTree ==
    /\ nodes = <<RootNode>>
    /\ states = <<[text |-> <<>>, captures |-> <<>>]>>
    /\ dicts = << <<>> >>
    /\ id_counter = 1
    /\ trace = <<[id |-> 0, parent_id |-> NoId, node_attr |-> "None"]>>
    /\ returned = {1}
    /\ active_blocks = <<>>
    /\ event_queues = <<>>
    /\ lastT = [op |-> "init", node |-> 0, arg |-> [key |-> NoName], ret |-> 1,
                exc |-> NoExc, pub |-> <<>>]
    /\ nops = 0

\* Model.__init__ run inside the scope of one block: the model starts with an
\* empty table of its own while the block is in the ambient tuple
InitInScope ==
    /\ nodes = <<RootNode>>
    /\ states = <<[text |-> <<>>, captures |-> <<>>]>>
    /\ dicts = << <<>> >>
    /\ id_counter = 1
    /\ trace = <<[id |-> 0, parent_id |-> NoId, node_attr |-> "None"]>>
    /\ returned = {1}
    /\ active_blocks \in {<<b>> : b \in Blocks}
    /\ event_queues = <<>>
    /\ lastT = [op |-> "init", node |-> 0, arg |-> [key |-> NoName], ret |-> 1,
                exc |-> NoExc, pub |-> <<>>]
    /\ nops = 0

\* the threads that make nodes: the caller's (the consumer of a stream) and
\* the worker of a stream
Threads == {"consumer", "worker"}

\* a thread outside Model.copy
NotCopying == [pc |-> "none", self |-> 0, id |-> 0, loaded |-> 0]

NoStream == [model |-> 0, grammar |-> NoFragment]
NoRun == [first |-> 0, last |-> 0, final |-> 0]

\* No ModelStream exists
InitStream ==
    /\ stream = NoStream
    /\ events = <<>>
    /\ token = <<>>
    /\ cpc = "idle"
    /\ wpc = "none"
    /\ wqueues = <<>>
    /\ outbox = <<>>
    /\ wexc = NoExc
    /\ wrun = NoRun
    /\ wput = <<>>
    /\ yielded = <<>>
    /\ cexc = NoExc
    /\ exit_path = "none"
    /\ copying = [t \in Threads |-> NotCopying]

NextTree ==
    \/ \E n \in returned, other \in Others : AddOp(n, other)
    \/ \E n \in returned, key \in Keys, value \in SetValues : SetOp(n, key, value)
    \/ \E n \in returned, key \in Keys : RemoveOp(n, key)
    \/ \E n \in returned : CopyOp(n)
    \/ \E b \in Blocks : EnterBlock(b)
    \/ ExitBlock

----------------------------------------------------------------------------
(* ModelStream: the deferred chain, its worker thread and its consumer *)

\* The grammars a stream is made with: lm.stream() alone (None), or
\* lm.stream() + g for a string, an ASTNode or a Function
StreamGrammars ==
    { NoFragment, StrValue(<<"x">>),
      AstValue(<<TextOutput(<<"y">>), CaptureOutput("k", <<"c">>)>>),
      AstValue(<<LiteralInput(<<"x">>), OtherChunk>>),
      FunctionValue }

\* The values the caller appends to its own nodes around an iteration
CallerOthers == { StrValue(<<"x">>) }

treeHeap == <<nodes, states, dicts, id_counter, trace>>

EchoOff(R) == [R EXCEPT !.nodes[R.self].echo = FALSE]

\* ModelStream.__init__: an echoing model is copied and echo is turned off on
\* the copy
StreamModel(R) == IF R.nodes[R.self].echo THEN EchoOff(Copy(R)) ELSE R

StreamCreated(R, grammar) ==
    /\ HeapAfter(R)
    /\ stream' = [model |-> R.self, grammar |-> grammar]

\* Model.stream() and ModelStream.__add__: the second __init__ (made by
\* __add__) finds echo off and keeps the model
StreamCreate(n, grammar) ==
    /\ CallerRuns
    /\ stream = NoStream
    /\ n \in returned
    /\ nops < MaxOps
    /\ nops' = nops + 1
    /\ StreamCreated(StreamModel(Run(n)), grammar)
    /\ UNCHANGED <<returned, active_blocks, event_queues, lastT>>
    /\ UNCHANGED <<events, token, cpc, wpc, wqueues, outbox, wexc, wrun, wput,
                   yielded, cexc, exit_path>>
    /\ UNCHANGED <<parserVars, copying>>

\* ModelStream.__iter__ up to the first events.get: a new queue is added to
\* _event_queues of the caller's context, and the thread is started with a
\* copy of that context
IterStart ==
    /\ stream # NoStream
    /\ cpc = "idle"
    /\ events' = <<>>
    /\ token' = event_queues
    /\ event_queues' = Append(event_queues, "events")
    /\ wqueues' = Append(event_queues, "events")
    /\ wpc' = "start"
    /\ cpc' = "get"
    /\ UNCHANGED <<treeHeap, returned, active_blocks, lastT, nops>>
    /\ UNCHANGED <<stream, outbox, wexc, wrun, wput, yielded, cexc, exit_path>>
    /\ UNCHANGED <<parserVars, copying>>

\* ModelStream._inner_run: self.model + "" for no grammar, else
\* self.model + self.grammar
InnerRun(R, grammar) ==
    IF grammar.kind = "none" THEN Add(R, StrValue(<<>>)) ELSE Add(R, grammar)

\* The run record of the worker thread.  The thread starts in a context of
\* its own, in which only _event_queues is set (from ctx): _active_blocks has
\* its default, the empty tuple.
WorkerContext == [active_blocks |-> <<>>, event_queues |-> wqueues]

WorkerRunRecord ==
    [Run(stream.model) EXCEPT !.active = WorkerContext.active_blocks,
                              !.queues = WorkerContext.event_queues]

WorkerRan(R) ==
    /\ HeapAfter(R)
    /\ outbox' = R.pub
    /\ wexc' = R.exc
    /\ wrun' = [first |-> Len(nodes) + 1, last |-> Len(R.nodes), final |-> R.self]

\* target, up to the end of _inner_run.  The chain runs on the worker's own
\* nodes; what it sends to the queue is put there item by item by WorkerPut.
WorkerRun ==
    /\ wpc = "start"
    /\ WorkerRan(InnerRun(WorkerRunRecord, stream.grammar))
    /\ wpc' = "put"
    /\ UNCHANGED <<returned, active_blocks, event_queues, lastT, nops>>
    /\ UNCHANGED <<stream, events, token, cpc, wqueues, wput, yielded, cexc, exit_path>>
    /\ UNCHANGED <<parserVars, copying>>

\* event_queue.put(self) in _send_to_event_queue, on the worker thread
WorkerPut ==
    /\ wpc = "put"
    /\ outbox # <<>>
    /\ events' = Append(events, NodeItem(Head(outbox), "worker"))
    /\ wput' = Append(wput, NodeItem(Head(outbox), "worker"))
    /\ outbox' = Tail(outbox)
    /\ UNCHANGED treeVars
    /\ UNCHANGED <<stream, token, cpc, wpc, wqueues, wexc, wrun, yielded, cexc, exit_path>>
    /\ UNCHANGED <<parserVars, copying>>

\* A target without the except clause: a failing chain ends the thread with
\* nothing put on the queue
TerminalItemsNoExcept(exc) == IF exc = NoExc THEN <<NoneItem>> ELSE <<>>

\* target: events.put(None) after the chain, events.put(ex) in the handler
TerminalItems(exc) == IF exc = NoExc THEN <<NoneItem>> ELSE <<ExcItem(exc)>>

WorkerFinish ==
    /\ wpc = "put"
    /\ outbox = <<>>
    /\ events' = events \o TerminalItems(wexc)
    /\ wput' = wput \o TerminalItems(wexc)
    /\ wpc' = "exiting"
    /\ UNCHANGED treeVars
    /\ UNCHANGED <<stream, token, cpc, wqueues, outbox, wexc, wrun, yielded, cexc, exit_path>>
    /\ UNCHANGED <<parserVars, copying>>

\* target returns: from here on thread.is_alive() is false
WorkerExit ==
    /\ wpc = "exiting"
    /\ wpc' = "exited"
    /\ UNCHANGED treeVars
    /\ UNCHANGED <<stream, events, token, cpc, wqueues, outbox, wexc, wrun, wput,
                   yielded, cexc, exit_path>>
    /\ UNCHANGED <<parserVars, copying>>

\* events.get(timeout=...) returns an item: the sentinel breaks the loop, an
\* exception is raised out of the generator, a node is yielded
ConsumerGet ==
    /\ cpc = "get"
    /\ events # <<>>
    /\ events' = Tail(events)
    /\ LET event == Head(events)
       IN CASE event.kind = "none" ->
                 /\ cpc' = "join"
                 /\ exit_path' = "sentinel"
                 /\ UNCHANGED <<yielded, cexc, returned>>
            [] event.kind = "exc" ->
                 /\ cpc' = "raised"
                 /\ cexc' = event.ex
                 /\ exit_path' = "exception"
                 /\ UNCHANGED <<yielded, returned>>
            [] OTHER ->
                 /\ cpc' = "yielded"
                 /\ yielded' = Append(yielded, event)
                 /\ returned' = returned \cup {event.ref}
                 /\ UNCHANGED <<cexc, exit_path>>
    /\ UNCHANGED <<treeHeap, active_blocks, event_queues, lastT, nops>>
    /\ UNCHANGED <<stream, token, wpc, wqueues, outbox, wexc, wrun, wput>>
    /\ UNCHANGED <<parserVars, copying>>

\* events.get(timeout=...) raises queue.Empty: nothing arrived in time
ConsumerTimeout ==
    /\ cpc = "get"
    /\ events = <<>>
    /\ cpc' = "check"
    /\ UNCHANGED treeVars
    /\ UNCHANGED <<stream, events, token, wpc, wqueues, outbox, wexc, wrun, wput,
                   yielded, cexc, exit_path>>
    /\ UNCHANGED <<parserVars, copying>>

\* except queue.Empty: if not thread.is_alive(): break
ConsumerCheck ==
    /\ cpc = "check"
    /\ IF wpc = "exited"
       THEN cpc' = "join" /\ exit_path' = "timeout"
       ELSE cpc' = "get" /\ UNCHANGED exit_path
    /\ UNCHANGED treeVars
    /\ UNCHANGED <<stream, events, token, wpc, wqueues, outbox, wexc, wrun, wput,
                   yielded, cexc>>
    /\ UNCHANGED <<parserVars, copying>>

\* The caller asks the generator for the next event
ConsumerNext ==
    /\ cpc = "yielded"
    /\ cpc' = "get"
    /\ UNCHANGED treeVars
    /\ UNCHANGED <<stream, events, token, wpc, wqueues, outbox, wexc, wrun, wput,
                   yielded, cexc, exit_path>>
    /\ UNCHANGED <<parserVars, copying>>

\* thread.join() returns, then _event_queues.reset(token)
ConsumerJoin ==
    /\ cpc = "join"
    /\ wpc = "exited"
    /\ cpc' = "done"
    /\ event_queues' = token
    /\ UNCHANGED <<treeHeap, returned, active_blocks, lastT, nops>>
    /\ UNCHANGED <<stream, events, token, wpc, wqueues, outbox, wexc, wrun, wput,
                   yielded, cexc, exit_path>>
    /\ UNCHANGED <<parserVars, copying>>

WorkerStep == WorkerRun \/ WorkerPut \/ WorkerFinish \/ WorkerExit

ConsumerStep ==
    ConsumerGet \/ ConsumerTimeout \/ ConsumerCheck \/ ConsumerNext \/ ConsumerJoin

NextStream ==
    \/ \E n \in returned, other \in CallerOthers : AddOp(n, other)
    \/ \E b \in Blocks : EnterBlock(b)
    \/ ExitBlock
    \/ \E n \in returned, grammar \in StreamGrammars : StreamCreate(n, grammar)
    \/ IterStart
    \/ WorkerStep
    \/ ConsumerStep

----------------------------------------------------------------------------
(* Model.copy on two threads, statement by statement through _gen_id *)

\* the variables of the streaming controller itself
controllerVars == <<stream, events, token, cpc, wpc, wqueues, outbox, wexc, wrun,
                    wput, yielded, cexc, exit_path>>

\* thread t calls copy on node n and runs it up to `_id = _id_counter` in
\* _gen_id
CopyBegin(t, n) ==
    /\ copying[t].pc = "none"
    /\ nops < MaxOps
    /\ nops' = nops + 1
    /\ copying' = [copying EXCEPT ![t] = [pc |-> "read", self |-> n,
                                          id |-> id_counter, loaded |-> 0]]
    /\ UNCHANGED <<treeHeap, returned, active_blocks, event_queues, lastT>>
    /\ UNCHANGED <<controllerVars, parserVars>>

\* `_id_counter += 1`: the global is loaded ...
GenIdLoad(t) ==
    /\ copying[t].pc = "read"
    /\ copying' = [copying EXCEPT ![t].pc = "loaded", ![t].loaded = id_counter]
    /\ UNCHANGED <<treeVars, controllerVars, parserVars>>

\* ... and the sum is stored; _gen_id returns _id and copy goes on to its end
\* with it: obj._id, obj._parent_id, obj._parent, the trace node
CopyEnd(t) ==
    /\ copying[t].pc = "loaded"
    /\ LET R == Copy([Run(copying[t].self) EXCEPT !.id_counter = copying[t].id])
       IN  /\ nodes' = R.nodes
           /\ states' = R.states
           /\ dicts' = R.dicts
           /\ trace' = R.trace
           /\ returned' = returned \cup {R.self}
           /\ lastT' = [op |-> "copy", node |-> copying[t].self, arg |-> [key |-> NoName],
                        ret |-> R.self, exc |-> NoExc, pub |-> <<>>]
    /\ id_counter' = copying[t].loaded + 1
    /\ copying' = [copying EXCEPT ![t] = NotCopying]
    /\ UNCHANGED <<active_blocks, event_queues, nops>>
    /\ UNCHANGED <<controllerVars, parserVars>>

NextCopy ==
    \/ \E t \in Threads, n \in returned : CopyBegin(t, n)
    \/ \E t \in Threads : GenIdLoad(t)
    \/ \E t \in Threads : CopyEnd(t)

----------------------------------------------------------------------------
(* LLParser and ByteParser over a grammar interpreter *)

\* The bytes grammars are written over, which are also the byte tokens
Alphabet == {97, 98}

\* The prompt is empty, so the prompt tokens are the begin-of-sequence token
PromptTokens == <<"bos">>

RECURSIVE SeqsUpTo(_, _)
SeqsUpTo(S, n) ==
    IF n = 0 THEN {<<>>}
    ELSE LET shorter == SeqsUpTo(S, n - 1)
         IN  shorter \cup {Append(s, x) : s \in shorter, x \in S}

Strings == SeqsUpTo(Alphabet, MaxLen) \ {<<>>}

\* The grammars: one byte string, or a choice between two
Grammars == {{s, t} : s \in Strings, t \in Strings}

IsPrefix(p, s) == Len(p) <= Len(s) /\ SubSeq(s, 1, Len(p)) = p

Max(a, b) == IF a >= b THEN a ELSE b

\* bytes.hex() on the interpreter's side and bytes.fromhex() on the parser's:
\* two hexadecimal digits per byte
ToHex(bts) == [i \in 1..(2 * Len(bts)) |->
                  IF i % 2 = 1 THEN bts[(i + 1) \div 2] \div 16
                  ELSE bts[i \div 2] % 16]

FromHex(h) == [i \in 1..(Len(h) \div 2) |-> h[2 * i - 1] * 16 + h[2 * i]]

\* ---- the interpreter (llguidance.LLInterpreter), driven by the grammar ----

\* the interpreter's state: the bytes it has committed, the tokens it last
\* returned as forced, how many capture events it may still report, and the
\* capture events it has reported so far
NewInterpreter(budget) ==
    [committed |-> <<>>, pending |-> <<>>, budget |-> budget, reported |-> <<>>]

Extensions(L, c) == {s \in L : IsPrefix(c, s) /\ Len(s) > Len(c)}

NextBytes(L, c) == {s[Len(c) + 1] : s \in Extensions(L, c)}

\* the longest run of bytes the grammar forces after c
RECURSIVE Forced(_, _)
Forced(L, c) ==
    IF c \notin L /\ Cardinality(NextBytes(L, c)) = 1
    THEN LET b == CHOOSE x \in NextBytes(L, c) : TRUE
         IN  <<b>> \o Forced(L, Append(c, b))
    ELSE <<>>

MaskOf(S) == [t \in Alphabet |-> IF t \in S THEN 1 ELSE 0]

NoMask == [present |-> FALSE, mask |-> MaskOf({})]

TextEvent(bts, generated) ==
    [object |-> "text", hex |-> ToHex(bts), num_tokens |-> Len(bts),
     log_prob |-> 0, is_generated |-> generated]

ListPrefix == "__LIST_APPEND:"

CaptureEvent(prefix, bts, lp) ==
    [object |-> "capture", name |-> [prefix |-> prefix, rest |-> "item"],
     hex |-> ToHex(bts), log_prob |-> lp]

\* the capture events one report may carry for the bytes it commits: none, or
\* up to two events within the budget, each a scalar or a list-append capture
CaptureChoices(bts, budget) ==
    LET one == {<<CaptureEvent(p, bts, budget)>> : p \in {"", ListPrefix}}
        two == {<<CaptureEvent(p, bts, budget), CaptureEvent(q, bts, budget - 1)>> :
                   p \in {"", ListPrefix}, q \in {"", ListPrefix}}
    IN  {<<>>} \cup (IF bts # <<>> /\ budget >= 1 THEN one ELSE {})
               \cup (IF bts # <<>> /\ budget >= 2 THEN two ELSE {})

\* what the interpreter answers once c is committed and the progress is known
Answer(L, it, c, text, caps) ==
    LET forced == Forced(L, c)
        stop == Extensions(L, c) = {}
        progress == text \o caps
        it2 == [committed |-> c, budget |-> it.budget - Len(caps),
                pending |-> IF stop THEN <<>> ELSE forced,
                reported |-> it.reported \o caps]
    IN  IF stop
        THEN [mask |-> NoMask, interp |-> it2,
              r |-> [backtrack |-> 0, ff_tokens |-> <<>>, stop |-> TRUE,
                     temperature |-> 0, progress |-> progress]]
        ELSE IF forced # <<>>
        THEN [mask |-> NoMask, interp |-> it2,
              r |-> [backtrack |-> 0, ff_tokens |-> forced, stop |-> FALSE,
                     temperature |-> 0, progress |-> progress]]
        ELSE [mask |-> [present |-> TRUE, mask |-> MaskOf(NextBytes(L, c))],
              interp |-> it2,
              r |-> [backtrack |-> 0, ff_tokens |-> <<>>, stop |-> FALSE,
                     temperature |-> 0, progress |-> progress]]

\* mid_process(backtrack, ff_tokens): commit the trim and the tokens, report
\* the committed bytes as text (and perhaps captures), then answer with forced
\* tokens, with a mask, or with stop
MidProcess(L, it, backtrack, ff_tokens) ==
    LET kept == SubSeq(it.committed, 1, Max(0, Len(it.committed) - backtrack))
        c == kept \o ff_tokens
        text == IF ff_tokens = <<>> THEN <<>>
                ELSE <<TextEvent(ff_tokens, ff_tokens # it.pending)>>
    IN  {Answer(L, it, c, text, caps) :
            caps \in CaptureChoices(ff_tokens, it.budget)}

\* ---- LLParser ----

NoPExc == [type |-> "none", where |-> "none", current_byte |-> 0,
           allowed_bytes |-> <<>>, consumed_bytes |-> <<>>]

AssertionError(where) == [NoPExc EXCEPT !.type = "AssertionError", !.where = where]

ParserException(where, current_byte, allowed_bytes, consumed_bytes) ==
    [type |-> "ParserException", where |-> where, current_byte |-> current_byte,
     allowed_bytes |-> allowed_bytes, consumed_bytes |-> consumed_bytes]

ParserState(tokens, ff_tokens, backtrack, done) ==
    [tokens |-> tokens, ff_tokens |-> ff_tokens, backtrack |-> backtrack, done |-> done]

NoGenData == [present |-> FALSE, tokens |-> <<>>, mask |-> MaskOf({}), temperature |-> 0]

GenData(tokens, mask, temperature) ==
    [present |-> TRUE, tokens |-> tokens, mask |-> mask, temperature |-> temperature]

\* GenData.valid_next_tokens: the indices at which the mask is nonzero
ValidNextTokens(gen_data) == {t \in DOMAIN gen_data.mask : gen_data.mask[t] # 0}

\* a dict entry of capture_groups or of the parser's variables: a list, or a
\* scalar held as the one element of vals
CapEntry(list, vals) == [list |-> list, vals |-> vals]

IsList(d, k) == k \in DOMAIN d /\ d[k].list

EmptyResponse ==
    [new_bytes |-> <<>>, new_token_count |-> 0, new_bytes_prob |-> 0,
     is_generated |-> FALSE, capture_groups |-> <<>>,
     capture_group_log_probs |-> <<>>, num_text_entries |-> 0]

HandleCapture(j, acc) ==
    LET data == FromHex(j.hex)
        cname == j.name.rest
        groups == acc.capture_groups
        probs == acc.capture_group_log_probs
        had == IsList(groups, cname)
    IN  IF j.name.prefix = ListPrefix
        THEN [acc EXCEPT
                !.is_generated = TRUE,
                !.capture_groups =
                    PutKey(groups, cname,
                           CapEntry(TRUE, IF had THEN Append(groups[cname].vals, data)
                                          ELSE <<data>>)),
                !.capture_group_log_probs =
                    PutKey(probs, cname,
                           CapEntry(TRUE, IF had THEN Append(probs[cname].vals, j.log_prob)
                                          ELSE <<j.log_prob>>))]
        ELSE [acc EXCEPT
                !.is_generated = TRUE,
                !.capture_groups = PutKey(groups, cname, CapEntry(FALSE, <<data>>)),
                !.capture_group_log_probs =
                    PutKey(probs, cname, CapEntry(FALSE, <<j.log_prob>>))]

\* a failing variant of the text branch: the fragment is put before the bytes
\* gathered so far
HandleTextPrepends(j, acc) ==
    [acc EXCEPT !.new_bytes = FromHex(j.hex) \o @,
                !.new_token_count = @ + j.num_tokens,
                !.new_bytes_prob = @ + j.log_prob,
                !.is_generated = @ \/ j.is_generated,
                !.num_text_entries = @ + 1]

HandleText(j, acc) ==
    [acc EXCEPT !.new_bytes = @ \o FromHex(j.hex),
                !.new_token_count = @ + j.num_tokens,
                !.new_bytes_prob = @ + j.log_prob,
                !.is_generated = @ \/ j.is_generated,
                !.num_text_entries = @ + 1]

RECURSIVE HandleEntries(_, _)
HandleEntries(progress, acc) ==
    IF progress = <<>> THEN acc
    ELSE LET j == Head(progress)
         IN  HandleEntries(Tail(progress),
                 IF j.object = "capture" THEN HandleCapture(j, acc)
                 ELSE IF j.object = "text" THEN HandleText(j, acc)
                 ELSE acc)

\* the mean of the text entries' log-probabilities
MeanProb(acc) ==
    IF acc.num_text_entries > 0
    THEN [acc EXCEPT !.new_bytes_prob = @ \div acc.num_text_entries]
    ELSE acc

\* LLParser._handle_progress
HandleProgress(progress) == MeanProb(HandleEntries(progress, EmptyResponse))

\* a failing variant of _consume_token: the assertions are left out
LLConsumeTokenUnchecked(B, tok_id) ==
    [B EXCEPT !.state = ParserState(Append(B.state.tokens, tok_id),
                                    <<tok_id>>, 0, FALSE),
              !.fed = @ + 1]

\* LLParser._consume_token and consume_token
LLConsumeToken(B, tok_id) ==
    IF B.state.done \/ B.state.backtrack # 0 \/ Len(B.state.ff_tokens) # 0
    THEN [B EXCEPT !.exc = AssertionError("consume_token")]
    ELSE [B EXCEPT !.state = ParserState(Append(B.state.tokens, tok_id),
                                         <<tok_id>>, 0, FALSE),
                   !.fed = @ + 1]

\* a failing variant of _advance: the three assertions of the mask branch
\* are left out
LLAdvanceUnchecked(B, a) ==
    [B |-> [B EXCEPT !.interp = a.interp,
                     !.state = ParserState(
                         IF a.mask.present THEN B.state.tokens
                         ELSE SubSeq(B.state.tokens, 1,
                                     Max(0, Len(B.state.tokens) - a.r.backtrack))
                                  \o a.r.ff_tokens,
                         a.r.ff_tokens, a.r.backtrack, a.r.stop)],
     gen_data |-> IF a.mask.present
                  THEN GenData(B.state.tokens, a.mask.mask, a.r.temperature)
                  ELSE NoGenData,
     response |-> HandleProgress(a.r.progress)]

\* a failing variant of _advance: tokens[:-backtrack] is taken without the
\* `if backtrack` guard, and tokens[:-0] is the empty list
LLAdvanceTrimsAlways(B, a) ==
    LET r == a.r
        kept == IF r.backtrack # 0
                THEN SubSeq(B.state.tokens, 1, Max(0, Len(B.state.tokens) - r.backtrack))
                ELSE <<>>
        tokens == IF a.mask.present THEN B.state.tokens ELSE kept \o r.ff_tokens
    IN  IF a.mask.present /\ (r.stop \/ r.backtrack # 0 \/ Len(r.ff_tokens) # 0)
        THEN [B |-> [B EXCEPT !.interp = a.interp, !.exc = AssertionError("advance")],
              gen_data |-> NoGenData, response |-> EmptyResponse]
        ELSE [B |-> [B EXCEPT !.interp = a.interp,
                              !.state = ParserState(tokens, r.ff_tokens, r.backtrack, r.stop)],
              gen_data |-> IF a.mask.present
                           THEN GenData(B.state.tokens, a.mask.mask, r.temperature)
                           ELSE NoGenData,
              response |-> HandleProgress(r.progress)]

\* LLParser._advance and advance, given the interpreter's answer a: the
\* object with its new state, the gen_data and the response
LLAdvance(B, a) ==
    LET r == a.r
        kept == IF r.backtrack # 0
                THEN SubSeq(B.state.tokens, 1, Max(0, Len(B.state.tokens) - r.backtrack))
                ELSE B.state.tokens
        tokens == IF a.mask.present THEN B.state.tokens ELSE kept \o r.ff_tokens
    IN  IF a.mask.present /\ (r.stop \/ r.backtrack # 0 \/ Len(r.ff_tokens) # 0)
        THEN [B |-> [B EXCEPT !.interp = a.interp, !.exc = AssertionError("advance")],
              gen_data |-> NoGenData, response |-> EmptyResponse]
        ELSE [B |-> [B EXCEPT !.interp = a.interp,
                              !.state = ParserState(tokens, r.ff_tokens, r.backtrack, r.stop)],
              gen_data |-> IF a.mask.present
                           THEN GenData(B.state.tokens, a.mask.mask, r.temperature)
                           ELSE NoGenData,
              response |-> HandleProgress(r.progress)]

\* ---- ByteParser ----

\* ByteParser.__init__ over LLParser.__init__ and _start
NewByteParser(budget) ==
    [state |-> ParserState(PromptTokens, <<>>, 0, FALSE),
     interp |-> NewInterpreter(budget),
     bytes |-> <<>>, gen_data |-> NoGenData, pos |-> 0,
     variables |-> <<>>, variables_log_probs |-> <<>>,
     exc |-> NoPExc, fed |-> 0]

PRaised(B) == B.exc.type # "none"

\* bytes.decode("utf8"): a str if the bytes are valid UTF-8, else the bytes
\* object unchanged (bytes under 128 are valid, the others here are not)
ValidUtf8(v) == \A i \in 1..Len(v) : v[i] < 128
Decode(v) == [type |-> IF ValidUtf8(v) THEN "str" ELSE "bytes", data |-> v]

RECURSIVE AppendDecoded(_, _, _, _)
\* the inner loop of _update_capture in list mode, from element i on
AppendDecoded(B, k, response, i) ==
    IF i > Len(response.capture_groups[k].vals) THEN B
    ELSE LET had == IsList(B.variables, k)
             vs == IF had THEN B.variables[k].vals ELSE <<>>
             ps == IF had THEN B.variables_log_probs[k].vals ELSE <<>>
             inner_v == Decode(response.capture_groups[k].vals[i])
             lp == response.capture_group_log_probs[k].vals[i]
         IN  AppendDecoded(
                 [B EXCEPT !.variables = PutKey(@, k, CapEntry(TRUE, Append(vs, inner_v))),
                           !.variables_log_probs = PutKey(@, k, CapEntry(TRUE, Append(ps, lp)))],
                 k, response, i + 1)

\* a failing variant of _update_capture: the list branch is skipped, every
\* entry is assigned as a scalar
UpdateCaptureKeyAssigns(B, k, response) ==
    [B EXCEPT !.variables =
                  PutKey(@, k, CapEntry(FALSE, <<Decode(response.capture_groups[k].vals[1])>>)),
              !.variables_log_probs =
                  PutKey(@, k, response.capture_group_log_probs[k])]

UpdateCaptureKey(B, k, response) ==
    IF response.capture_groups[k].list
    THEN AppendDecoded(B, k, response, 1)
    ELSE [B EXCEPT !.variables =
                       PutKey(@, k, CapEntry(FALSE, <<Decode(response.capture_groups[k].vals[1])>>)),
                   !.variables_log_probs =
                       PutKey(@, k, response.capture_group_log_probs[k])]

RECURSIVE UpdateCaptureKeys(_, _, _)
UpdateCaptureKeys(B, ks, response) ==
    IF ks = {} THEN B
    ELSE LET k == CHOOSE x \in ks : TRUE
         IN  UpdateCaptureKeys(UpdateCaptureKey(B, k, response), ks \ {k}, response)

\* ByteParser._update_capture
ParserUpdateCapture(B, response) ==
    UpdateCaptureKeys(B, DOMAIN response.capture_groups, response)

\* a failing variant of the loop body: self.bytes = response.new_bytes
LoopBodyAssignsBytes(res) ==
    IF PRaised(res.B) THEN res.B
    ELSE [ParserUpdateCapture([res.B EXCEPT !.gen_data = res.gen_data], res.response)
             EXCEPT !.bytes = res.response.new_bytes]

\* the body of the advance loop of consume_bytes, on the result of advance()
LoopBodyOn(res) ==
    IF PRaised(res.B) THEN res.B
    ELSE [ParserUpdateCapture([res.B EXCEPT !.gen_data = res.gen_data], res.response)
             EXCEPT !.bytes = @ \o res.response.new_bytes]

RECURSIVE AdvanceLoop(_, _)
\* while self.gen_data is None and not self.ll_parser.done: the objects the
\* loop can end with, one for each way the interpreter can answer
AdvanceLoop(L, B) ==
    IF PRaised(B) \/ B.gen_data.present \/ B.state.done THEN {B}
    ELSE UNION {AdvanceLoop(L, LoopBodyOn(LLAdvance(B, a))) :
                   a \in MidProcess(L, B.interp, B.state.backtrack, B.state.ff_tokens)}

RECURSIVE SortedSeq(_)
\* a list of integers in ascending order
SortedSeq(S) ==
    IF S = {} THEN <<>>
    ELSE LET m == CHOOSE x \in S : \A y \in S : x <= y
         IN  <<m>> \o SortedSeq(S \ {m})

\* [bytes([t]) for t in valid_next_tokens]
ValidNextBytes(gen_data) ==
    LET toks == SortedSeq(ValidNextTokens(gen_data))
    IN  [i \in 1..Len(toks) |-> <<toks[i]>>]

\* a failing variant of the frontier branch: gen_data is kept after the token
TokenConsumedKeepsGenData(B) == B

\* self.ll_parser.consume_token(b); self.gen_data = None
TokenConsumed(B) == IF PRaised(B) THEN B ELSE [B EXCEPT !.gen_data = NoGenData]

RECURSIVE ConsumeBytes(_, _, _)
RECURSIVE AfterAdvance(_, _, _)
\* consume_bytes after its advance loop
AfterAdvance(L, B, bts) ==
    IF PRaised(B) \/ bts = <<>> THEN {B}
    ELSE IF B.pos < Len(B.bytes)
    THEN IF bts[1] # B.bytes[B.pos + 1]
         THEN {[B EXCEPT !.exc = ParserException("fast_forward", bts[1],
                                     <<B.bytes[B.pos + 1]>>, B.bytes)]}
         ELSE ConsumeBytes(L, [B EXCEPT !.pos = @ + 1], Tail(bts))
    ELSE IF ~B.gen_data.present
    THEN {[B EXCEPT !.exc = AssertionError("frontier")]}
    ELSE IF bts[1] \notin ValidNextTokens(B.gen_data)
    THEN {[B EXCEPT !.exc = ParserException("frontier", bts[1],
                                ValidNextBytes(B.gen_data), B.bytes)]}
    ELSE LET B1 == TokenConsumed(LLConsumeToken(B, bts[1]))
         IN  IF PRaised(B1) THEN {B1} ELSE ConsumeBytes(L, B1, bts)

\* ByteParser.consume_bytes
ConsumeBytes(L, B, bts) == UNION {AfterAdvance(L, B1, bts) : B1 \in AdvanceLoop(L, B)}

\* a failing variant of matched: the answer is ll_parser.done, whatever pos is
MatchedIgnoresCursor(L, B) == {[B |-> B, ret |-> B.state.done]}

\* ByteParser.matched: the object and the value returned
Matched(L, B) ==
    IF B.pos < Len(B.bytes) THEN {[B |-> B, ret |-> FALSE]}
    ELSE IF ~B.state.done
    THEN {[B |-> B1, ret |-> B1.state.done] : B1 \in ConsumeBytes(L, B, <<>>)}
    ELSE {[B |-> B, ret |-> B.state.done]}

\* ByteParser.get_captures
GetCaptures(B) == <<B.variables, B.variables_log_probs>>

\* ---- the caller of a ByteParser ----

Inputs == SeqsUpTo(Alphabet, MaxInput)

StartCall(B) == [B EXCEPT !.exc = NoPExc, !.fed = 0]

NoCall == [op |-> "init", bts |-> <<>>, ret |-> FALSE, pos |-> 0, bytes |-> <<>>]

Called(op, bts, ret) ==
    [op |-> op, bts |-> bts, ret |-> ret, pos |-> bp.pos, bytes |-> bp.bytes]

treeAndStream == <<treeVars, streamVars>>

ConsumeBytesCall(bts) ==
    /\ ncalls < MaxCalls
    /\ ncalls' = ncalls + 1
    /\ \E B1 \in ConsumeBytes(lang, StartCall(bp), bts) :
          /\ bp' = B1
          /\ lastP' = Called("consume_bytes", bts, FALSE)
    /\ UNCHANGED <<lang, treeAndStream>>

MatchedCall ==
    /\ ncalls < MaxCalls
    /\ ncalls' = ncalls + 1
    /\ \E m \in Matched(lang, StartCall(bp)) :
          /\ bp' = m.B
          /\ lastP' = Called("matched", <<>>, m.ret)
    /\ UNCHANGED <<lang, treeAndStream>>

\* no ByteParser has been made
NoParser ==
    /\ lang = {}
    /\ bp = NewByteParser(0)
    /\ lastP = NoCall
    /\ ncalls = 0

\* ByteParser(grammar)
InitParser ==
    /\ lang \in Grammars
    /\ bp = NewByteParser(MaxCaptures)
    /\ lastP = NoCall
    /\ ncalls = 0

NextParser ==
    \/ \E bts \in Inputs : ConsumeBytesCall(bts)
    \/ MatchedCall

\* the grammars that leave every byte to the caller: all the byte strings of
\* one length, so that each byte fed arrives at the frontier with a mask
FreeGrammars == {{s \in Strings : Len(s) = k} : k \in 1..MaxLen}

\* ByteParser(grammar) over a grammar without captures
InitFrontier ==
    /\ lang \in Grammars \cup FreeGrammars
    /\ bp = NewByteParser(0)
    /\ lastP = NoCall
    /\ ncalls = 0

\* ---- the caller of an LLParser ----

\* parser.advance(): the caller keeps the gen_data it is handed
LLAdvanceOn(res) ==
    IF PRaised(res.B) THEN res.B ELSE [res.B EXCEPT !.gen_data = res.gen_data]

AdvanceCall ==
    /\ ncalls < MaxCalls
    /\ ncalls' = ncalls + 1
    /\ \E a \in MidProcess(lang, bp.interp, bp.state.backtrack, bp.state.ff_tokens) :
          bp' = LLAdvanceOn(LLAdvance(StartCall(bp), a))
    /\ lastP' = Called("advance", <<>>, FALSE)
    /\ UNCHANGED <<lang, treeAndStream>>

\* parser.consume_token(tok_id), in whatever state the parser is
ConsumeTokenCall(tok_id) ==
    /\ ncalls < MaxCalls
    /\ ncalls' = ncalls + 1
    /\ bp' = LLConsumeToken(StartCall(bp), tok_id)
    /\ lastP' = Called("consume_token", <<tok_id>>, FALSE)
    /\ UNCHANGED <<lang, treeAndStream>>

NextLLParser ==
    \/ AdvanceCall
    \/ \E tok_id \in Alphabet : ConsumeTokenCall(tok_id)

\* ---- an LLParser over an interpreter that may answer anything ----

\* the tokens a report may force: none, one or two
ForcedRuns == {<<>>, <<97>>, <<98, 97>>}

\* what mid_process may hand back when nothing is assumed of the interpreter:
\* a mask or none, any backtrack count, forced tokens or none, stop or not,
\* and the forced tokens reported as text
Reports ==
    {[mask |-> IF m THEN [present |-> TRUE, mask |-> MaskOf({97})] ELSE NoMask,
      interp |-> NewInterpreter(0),
      r |-> [backtrack |-> b, ff_tokens |-> ff, stop |-> st, temperature |-> 0,
             progress |-> IF ff = <<>> THEN <<>> ELSE <<TextEvent(ff, TRUE)>>]] :
        m \in BOOLEAN, b \in 0..MaxBacktrack, ff \in ForcedRuns, st \in BOOLEAN}

\* parser.advance(): mid_process is called with the stored backtrack and
\* ff_tokens and answers with report a
AdvanceOnReport(a) ==
    /\ ncalls < MaxCalls
    /\ ncalls' = ncalls + 1
    /\ bp' = LLAdvanceOn(LLAdvance(StartCall(bp), a))
    /\ lastP' = [report |-> [mask |-> a.mask.present, r |-> a.r],
                 sent |-> [backtrack |-> bp.state.backtrack,
                           ff_tokens |-> bp.state.ff_tokens]]
                   @@ Called("advance", <<>>, FALSE)
    /\ UNCHANGED <<lang, treeAndStream>>

NextLLProtocol ==
    \/ \E a \in Reports : AdvanceOnReport(a)
    \/ \E tok_id \in Alphabet : ConsumeTokenCall(tok_id)

\* ---- LLParser._handle_progress on the reports of an interpreter ----

\* what one entry of a progress report says: a text fragment (bytes, number
\* of tokens), a capture (scalar or list-append, bytes, log-probability), or
\* an entry of a kind the parser does not know
ProgressItems ==
    { [object |-> "text", bts |-> <<97>>, num_tokens |-> 1, log_prob |-> 0,
       is_generated |-> FALSE, prefix |-> ""],
      [object |-> "text", bts |-> <<98, 97>>, num_tokens |-> 1, log_prob |-> 2,
       is_generated |-> TRUE, prefix |-> ""],
      [object |-> "capture", bts |-> <<97, 98>>, num_tokens |-> 0, log_prob |-> 1,
       is_generated |-> FALSE, prefix |-> ""],
      [object |-> "capture", bts |-> <<98>>, num_tokens |-> 0, log_prob |-> 3,
       is_generated |-> FALSE, prefix |-> ListPrefix],
      [object |-> "final_text", bts |-> <<98>>, num_tokens |-> 1, log_prob |-> 0,
       is_generated |-> FALSE, prefix |-> ""] }

\* the entry as the interpreter writes it into the report: bytes in hex
ProgressEntry(item) ==
    IF item.object = "capture"
    THEN CaptureEvent(item.prefix, item.bts, item.log_prob)
    ELSE [object |-> item.object, hex |-> ToHex(item.bts),
          num_tokens |-> item.num_tokens, log_prob |-> item.log_prob,
          is_generated |-> item.is_generated]

\* LLParser._handle_progress(progress), for the report made of the items
HandleProgressCall(items) ==
    /\ ncalls < MaxCalls
    /\ ncalls' = ncalls + 1
    /\ lastP' = [op |-> "_handle_progress", items |-> items,
                 response |-> HandleProgress([i \in 1..Len(items) |->
                                                 ProgressEntry(items[i])])]
    /\ UNCHANGED <<lang, bp, treeAndStream>>

NextProgress == \E items \in SeqsUpTo(ProgressItems, MaxEntries) : HandleProgressCall(items)

----------------------------------------------------------------------------
(* Specifications *)

\* the model tree alone
TreeInit == InitTree /\ InitStream /\ NoParser

SpecTree == TreeInit /\ [][NextTree]_vars

\* the model tree, made inside the scope of a block
ScopeInit == InitInScope /\ InitStream /\ NoParser

SpecScope == ScopeInit /\ [][NextTree]_vars

\* a stream, its worker and its consumer
StreamInit == InitTree /\ InitStream /\ NoParser

SpecStream == StreamInit /\ [][NextStream]_vars

\* What the worker thread does once its chain has run
WorkerPublish == WorkerPut \/ WorkerFinish \/ WorkerExit

\* The scheduler runs a thread that can run; the caller keeps iterating
SpecStreamFair ==
    StreamInit /\ [][NextStream]_vars /\ WF_vars(WorkerPublish) /\ WF_vars(ConsumerStep)

\* two threads that copy nodes of one tree
SpecCopy == TreeInit /\ [][NextCopy]_vars

\* the reduction of progress reports
SpecProgress == TreeInit /\ [][NextProgress]_vars

\* a ByteParser and its caller
ParserInit == InitTree /\ InitStream /\ InitParser

SpecParser == ParserInit /\ [][NextParser]_vars

\* a ByteParser and its caller, over grammars that may leave every byte free
FrontierInit == InitTree /\ InitStream /\ InitFrontier

SpecFrontier == FrontierInit /\ [][NextParser]_vars

\* an LLParser and its caller
SpecLLParser == ParserInit /\ [][NextLLParser]_vars

\* an LLParser, its caller and an unconstrained interpreter
SpecLLProtocol == TreeInit /\ [][NextLLProtocol]_vars

(* ======================================================================= *)
(* Properties                                                              *)
(* ======================================================================= *)

\* What a caller can observe on the Model object n
Observable(n) ==
    [text |-> states[nodes[n].state].text,
     captures |-> states[nodes[n].state].captures,
     token_count |-> nodes[n].token_count,
     id |-> nodes[n].id,
     parent_id |-> nodes[n].parent_id,
     blocks |-> dicts[nodes[n].ab]]

ObservableNext(n) ==
    [text |-> states'[nodes'[n].state].text,
     captures |-> states'[nodes'[n].state].captures,
     token_count |-> nodes'[n].token_count,
     id |-> nodes'[n].id,
     parent_id |-> nodes'[n].parent_id,
     blocks |-> dicts'[nodes'[n].ab]]

\* C1: no operation on a node (append, block reconciliation, set, remove,
\* copy) changes anything observable on a node that was returned earlier:
\* its text, captures, token count, identity, parent identity and its table
\* of locally active blocks with their start offsets stay as they were.
C1_ReturnedNodesNeverChange ==
    [][\A n \in returned : ObservableNext(n) = Observable(n)]_vars

\* The value get returns when the key is absent
Default == [list |-> FALSE, vals |-> << <<"default">> >>]

IsSetStep == lastT'.op = "set" /\ nops' = nops + 1

\* C2: n.set(k, v) returns a new node m on which reading k gives v, while
\* reading k on n gives what it gave before the call (the prior value, or
\* the default when k was absent).
C2_SetThenGet ==
    [][IsSetStep =>
         LET n == lastT'.node
             m == lastT'.ret
             k == lastT'.arg.key
         IN /\ m # n
            /\ Get(states'[nodes'[m].state], k, Default) = lastT'.arg.value
            /\ Get(states'[nodes'[n].state], k, Default) = Get(states[nodes[n].state], k, Default)
      ]_vars

\* C2 witness: a set has returned a node whose value for the key differs from
\* the value the original node already had for it
C2_Witness ==
    /\ lastT.op = "set"
    /\ lastT.arg.key \in DOMAIN states[nodes[lastT.node].state].captures
    /\ Get(states[nodes[lastT.ret].state], lastT.arg.key, Default)
         # Get(states[nodes[lastT.node].state], lastT.arg.key, Default)

----------------------------------------------------------------------------
(* Streaming *)

NodeEvents(items) == SelectSeq(items, LAMBDA it : it.kind = "node")
Refs(items) == {items[i].ref : i \in 1..Len(items)}
WorkerDone == wpc \in {"exiting", "exited"}

\* No node made on the caller's own thread has gone through the queue
NoCallerItems ==
    /\ \A i \in 1..Len(events) : events[i].by = "worker"
    /\ \A i \in 1..Len(yielded) : yielded[i].by = "worker"

\* C3: for a chain whose worker produces N node events and finishes
\* normally, the iteration yields exactly these N events, in the order they
\* were produced, and then stops, whatever the interleaving of worker and
\* consumer, queue timeouts included.
C3_YieldsExactlyTheWorkerEvents ==
    (cpc = "done" /\ wexc = NoExc /\ NoCallerItems) => yielded = NodeEvents(wput)

\* C4: an exception raised on the worker thread is raised out of the
\* consumer's iteration as the same exception; the iteration never ends
\* normally while a worker exception goes unreported.
C4_WorkerExceptionReachesConsumer ==
    /\ cpc = "raised" => (wexc # NoExc /\ cexc = wexc)
    /\ cpc = "done" => wexc = NoExc

\* C5: when the consumer leaves its loop on a queue timeout (the sentinel not
\* dequeued), the queue holds no unyielded node, no sentinel and no exception.
C5_TimeoutExitLeavesQueueEmpty ==
    (cpc = "join" /\ exit_path = "timeout") => events = <<>>

\* C6: whenever the worker has finished, what it has put on the queue is its
\* node events followed by exactly one terminal item, the None sentinel after
\* a normal run or the caught exception after a failure; and once the worker
\* has terminated the consumer's iteration terminates too.
C6_WorkerEndsWithOneTerminalItem ==
    /\ [](WorkerDone =>
            /\ wput # <<>>
            /\ wput[Len(wput)] = (IF wexc = NoExc THEN NoneItem ELSE ExcItem(wexc))
            /\ \A i \in 1..(Len(wput) - 1) : wput[i].kind = "node")
    /\ (wpc = "exited") ~> (cpc \in {"done", "raised"})

\* C6 witness: a worker whose chain failed after sending an event has exited,
\* and the iteration has ended with that exception
C6_Witness ==
    /\ wpc = "exited"
    /\ wexc # NoExc
    /\ Len(wput) > 1
    /\ cpc = "raised"

\* The nodes of the worker's chain
WorkerNodes == IF wrun.first = 0 THEN {} ELSE wrun.first..wrun.last

\* The nodes of the worker's chain that _apply_chunk made for a supported
\* chunk: the trace holds the chunk under the node's id
ChunkNodes ==
    {n \in WorkerNodes :
        \E t \in 1..Len(trace) : trace[t].id = nodes[n].id /\ trace[t].node_attr # "None"}

\* C7 as claimed: every node the worker creates while running the chain (by
\* applying a chunk, by block reconciliation, by a capture update via set) is
\* put on the stream's queue, so the last event is the final node of the chain.
C7_EveryWorkerNodeIsPublished ==
    (WorkerDone /\ wexc = NoExc) =>
        /\ WorkerNodes \subseteq Refs(NodeEvents(wput))
        /\ wrun.final \in Refs(NodeEvents(wput))

\* C7 as amended: the nodes the worker puts on the queue are exactly the nodes
\* made by applying a chunk, in creation order; the copies made by block
\* reconciliation, by _update_open_block_captures and by set are not put.
C7_ChunkNodesArePublished ==
    WorkerDone =>
        LET sent == NodeEvents(wput)
        IN /\ Refs(sent) = ChunkNodes
           /\ \A i, j \in 1..Len(sent) : i < j => sent[i].ref < sent[j].ref

\* C7 witness: a chain that closed a named block and applied a chunk has
\* finished: two nodes were sent, the nodes made by copy and set were not
C7_Witness ==
    /\ wpc = "exited"
    /\ wexc = NoExc
    /\ Len(NodeEvents(wput)) >= 2
    /\ Cardinality(WorkerNodes) >= Len(NodeEvents(wput)) + 3
    /\ wrun.final \notin Refs(NodeEvents(wput))

----------------------------------------------------------------------------
(* ByteParser properties *)

\* the caller's byte on which the last consume_bytes call stopped: every byte
\* the call consumed moved pos by one
OffendingByte == lastP.bts[bp.pos - lastP.pos + 1]

\* C8: whenever matched() returns true, then at the moment it returns
\* pos == len(bytes) and the underlying parser is done, the calls in which
\* matched() itself does the empty consume_bytes flush included
C8_MatchedMeansAtEndAndDone ==
    (lastP.op = "matched" /\ ~PRaised(bp) /\ lastP.ret)
        => (bp.pos = Len(bp.bytes) /\ bp.state.done)

\* C9: when consume_bytes fails with the cursor inside the committed buffer,
\* the error is a byte-mismatch error carrying the expected byte bytes[pos],
\* the caller's actual byte, and as the bytes consumed so far the prefix
\* bytes[0:pos] the caller has fed
C9_MismatchCarriesConsumedPrefix ==
    (lastP.op = "consume_bytes" /\ PRaised(bp) /\ bp.pos < Len(bp.bytes))
        => /\ bp.exc.type = "ParserException"
           /\ bp.exc.allowed_bytes = <<bp.bytes[bp.pos + 1]>>
           /\ bp.exc.current_byte = OffendingByte
           /\ bp.exc.consumed_bytes = SubSeq(bp.bytes, 1, bp.pos)

\* C10: when consume_bytes fails with the cursor at the frontier
\* (pos == len(bytes)), the error is a byte-mismatch error (ParserException)
\* for the caller's byte, listing the legal next bytes, and no token was fed
\* for that byte; also after the underlying parser has become done
C10_FrontierFailureIsParserException ==
    (lastP.op = "consume_bytes" /\ PRaised(bp) /\ bp.pos = Len(bp.bytes))
        => /\ bp.exc.type = "ParserException"
           /\ bp.exc.current_byte = OffendingByte
           /\ bp.exc.allowed_bytes = ValidNextBytes(bp.gen_data)
           /\ OffendingByte \notin ValidNextTokens(bp.gen_data)
           /\ bp.state.ff_tokens = <<>>

\* what the caller has fed and the parser has consumed so far
Consumed == SubSeq(bp.bytes, 1, bp.pos)

\* the accepted strings that go on from the bytes p
Accepted(p) == {s \in lang : IsPrefix(p, s)}

\* a call consume_bytes(<<b>>) whose byte goes on along an accepted string
FeedsAccepted ==
    /\ ncalls' = ncalls + 1
    /\ lastP'.op = "consume_bytes"
    /\ Len(lastP'.bts) = 1
    /\ Accepted(Consumed \o lastP'.bts) # {}

\* C11: feeding a prefix of an accepted string byte by byte never raises:
\* each byte is consumed, the committed buffer only grows by appending, and
\* it stays a prefix of every accepted string that goes on from the bytes
\* fed, so the buffer after a prefix is a prefix of the buffer after the
\* full string
C11_AcceptedPrefixFeedsWithoutError ==
    [][FeedsAccepted =>
          /\ ~PRaised(bp')
          /\ bp'.pos = bp.pos + 1
          /\ SubSeq(bp'.bytes, 1, bp'.pos) = Consumed \o lastP'.bts
          /\ IsPrefix(bp.bytes, bp'.bytes)
          /\ \A s \in Accepted(Consumed \o lastP'.bts) : IsPrefix(bp'.bytes, s)]_vars

\* a whole accepted string of two bytes has been fed, the last byte by itself
C11_Witness ==
    /\ lastP.op = "consume_bytes" /\ Len(lastP.bts) = 1 /\ lastP.pos = 1
    /\ ~PRaised(bp) /\ bp.pos = 2
    /\ Consumed \in lang
    /\ Cardinality(lang) = 2

\* the grammar accepts exactly one string, of two bytes or more
OneString == Cardinality(lang) = 1 /\ \A s \in lang : Len(s) >= 2

\* the last call fed, by itself, the next byte of an accepted string
FedNextByte ==
    /\ lastP.op = "consume_bytes"
    /\ Len(lastP.bts) = 1
    /\ Accepted(SubSeq(lastP.bytes, 1, lastP.pos) \o lastP.bts) # {}

\* C12: for a grammar that accepts exactly one string s of two bytes or more,
\* each call feeding the next byte of s raises no error and consumes the
\* byte, and matched() after one or more bytes answers false until the last
\* byte of s has been fed and true after it
C12_OneStringFedByteByByte ==
    OneString =>
        /\ FedNextByte => (~PRaised(bp) /\ bp.pos = lastP.pos + 1)
        /\ (lastP.op = "matched" /\ bp.pos >= 1) =>
               /\ ~PRaised(bp)
               /\ lastP.ret = (Consumed \in lang)

\* both bytes of the one string fed in two calls, then matched() is true
C12_Witness ==
    /\ OneString
    /\ ncalls = 3
    /\ lastP.op = "matched" /\ lastP.ret
    /\ Consumed \in lang

\* the capture events the interpreter has reported for the name k, in order
ReportedFor(k) ==
    LET named(e) == e.name.rest = k
    IN  SelectSeq(bp.interp.reported, named)

IsListEvent(e) == e.name.prefix = ListPrefix

\* the value a capture event delivers, as the parser stores it
ValueOf(e) == Decode(FromHex(e.hex))

ValuesOf(es) == [i \in 1..Len(es) |-> ValueOf(es[i])]
LogProbsOf(es) == [i \in 1..Len(es) |-> es[i].log_prob]

CaptureNames == {"item"}

\* C13: for each capture name the shape fixed by its first write holds for
\* the rest of the parse: if the first value arrived in list mode the
\* variable is the list of every value that arrived, in order; if it arrived
\* in scalar mode the variable is the scalar that arrived last
C13_ShapeFixedByFirstWrite ==
    \A k \in CaptureNames :
        LET es == ReportedFor(k)
        IN  es # <<>> =>
               /\ k \in DOMAIN bp.variables
               /\ IF IsListEvent(es[1])
                  THEN bp.variables[k] = CapEntry(TRUE, ValuesOf(es))
                  ELSE bp.variables[k] = CapEntry(FALSE, <<ValueOf(es[Len(es)])>>)

\* C14: what get_captures() returns: list-mode values that arrived over
\* successive steps form one list in arrival order, and the log-probability
\* entry of every name has the shape of its value entry: a list of the same
\* length whose i-th element was reported with the i-th value, or a scalar
\* for a scalar
C14_CapturesAndLogProbsParallel ==
    LET variables == GetCaptures(bp)[1]
        log_probs == GetCaptures(bp)[2]
    IN  /\ DOMAIN variables = DOMAIN log_probs
        /\ \A k \in DOMAIN variables :
              LET es == ReportedFor(k)
              IN  /\ log_probs[k].list = variables[k].list
                  /\ Len(log_probs[k].vals) = Len(variables[k].vals)
                  /\ \A i \in 1..Len(variables[k].vals) :
                        \E j \in 1..Len(es) :
                            /\ ValueOf(es[j]) = variables[k].vals[i]
                            /\ es[j].log_prob = log_probs[k].vals[i]
                  /\ (\A j \in 1..Len(es) : IsListEvent(es[j])) =>
                        /\ variables[k] = CapEntry(TRUE, ValuesOf(es))
                        /\ log_probs[k] = CapEntry(TRUE, LogProbsOf(es))

\* two list-mode values that arrived in two different steps
C14_Witness ==
    /\ "item" \in DOMAIN bp.variables
    /\ bp.variables["item"].list
    /\ Len(bp.variables["item"].vals) = 2
    /\ bp.variables["item"].vals[1] # bp.variables["item"].vals[2]
    /\ \A j \in 1..Len(bp.interp.reported) : IsListEvent(bp.interp.reported[j])

----------------------------------------------------------------------------
(* LLParser properties *)

\* the parser is waiting for a token the caller chooses
AwaitsToken(st) == ~st.done /\ st.backtrack = 0 /\ st.ff_tokens = <<>>

C16_NothingAfterDone ==
    [][(ncalls' = ncalls + 1 /\ bp.state.done
            /\ lastP'.op \in {"advance", "consume_token"}) =>
          /\ PRaised(bp')
          /\ bp'.state = bp.state
          /\ bp'.interp = bp.interp]_vars

----------------------------------------------------------------------------
(* Block properties *)

\* the start offset the table d records for the block
StartOf(d, block) == d[CHOOSE i \in 1..Len(d) : d[i][1] = block][2]

\* the text a block's opener adds to a node
OpenerText(block) ==
    IF BlockDef[block].opener.kind = "str" THEN BlockDef[block].opener.text ELSE <<>>

\* a call of __add__ has just ended: entering and leaving a scope change the
\* ambient tuple, the operations on nodes do not
AppendEnds ==
    nops' = nops + 1 /\ active_blocks' = active_blocks /\ lastT'.op = "add"

\* the block is open on node n and nothing but its opener has been appended
\* since it was opened
OpenAndEmpty(n, block) ==
    /\ InDict(dicts[nodes[n].ab], block)
    /\ Len(states[nodes[n].state].text) =
           StartOf(dicts[nodes[n].ab], block) + Len(OpenerText(block))

\* the append of the empty string that has just returned
EmptyAppendReturns ==
    /\ AppendEnds
    /\ lastT'.arg = StrValue(<<>>)
    /\ lastT'.ret # 0

\* C17: a named block opened on a node and closed by the next append, with
\* no content appended in between, leaves under the block's name a capture
\* equal to the empty sequence, whether the block has an opener and a closer
\* or not
C17_OpenThenCloseCapturesNothing ==
    [][\A b \in Blocks :
          (EmptyAppendReturns /\ BlockDef[b].name # NoName
              /\ ~InTuple(active_blocks, b) /\ OpenAndEmpty(lastT'.node, b))
          => LET st == states'[nodes'[lastT'.ret].state]
             IN  /\ BlockDef[b].name \in DOMAIN st.captures
                 /\ GetItem(st, BlockDef[b].name) = StrVal(<<>>)]_vars

\* an append that has just returned a node
AppendReturns == AppendEnds /\ lastT'.ret # 0

\* C18: after every append made while a named block is open (in the ambient
\* tuple, and in the table of the node returned), whatever the value
\* appended, the capture of the returned node under the block's name is the
\* node's text from the block's recorded start offset to its end
C18_OpenBlockCaptureFollowsText ==
    [][\A b \in Blocks :
          LET m == lastT'.ret
              st == states'[nodes'[m].state]
              d == dicts'[nodes'[m].ab]
          IN  (AppendReturns /\ BlockDef[b].name # NoName
                  /\ InTuple(active_blocks, b) /\ InDict(d, b))
              => /\ BlockDef[b].name \in DOMAIN st.captures
                 /\ GetItem(st, BlockDef[b].name) = StrVal(Slice(st.text, StartOf(d, b)))]_vars

\* a block with a stateful opener is in the ambient tuple: no node has it
\* open, since opening it always fails, so the next append has to open it
StatefulOpenerActive ==
    \E b \in Blocks : InTuple(active_blocks, b) /\ BlockDef[b].opener.kind = "function"

\* C19: every append that has to open a block whose opener is a Function
\* fails with the 'not yet supported' error, on the first attempt and on
\* every later one; none returns a node with the opener skipped
C19_StatefulFragmentAlwaysFails ==
    [][(AppendEnds /\ StatefulOpenerActive)
          => /\ lastT'.ret = 0
             /\ lastT'.exc.type = "NotImplementedError"
             /\ lastT'.exc.msg = NotYetSupported]_vars

----------------------------------------------------------------------------
(* Worker context *)

\* C20: the worker runs against a snapshot of the spawner's ambient state:
\* when the iteration starts, the ambient active blocks and the ambient event
\* queues of the worker thread are those of the consumer's context
C20_WorkerSeesSpawnersAmbientState ==
    [][(cpc = "idle" /\ cpc' = "get")
          => /\ WorkerContext'.event_queues = event_queues'
             /\ WorkerContext'.active_blocks = active_blocks']_vars

----------------------------------------------------------------------------
(* Capture map operations *)

\* the State object of node n after the step
StateAfter(n) == states'[nodes'[n].state]

\* a call of set or remove has just returned a node
SetOrRemoveReturns ==
    nops' = nops + 1 /\ active_blocks' = active_blocks
        /\ lastT'.op \in {"set", "remove"} /\ lastT'.ret # 0

\* every log-probability log_prob reports for the key is None
NoLogProb(st, key) ==
    LET lp == LogProb(st, key, Default)
    IN \A i \in 1..Len(lp.vals) : lp.vals[i] = "None"

\* C21: a set or a remove that returns gives a new node with the text (and
\* length) of the original; the capture maps of the two differ at most in
\* the entry for the key, which on the new node is the value given with no
\* log-probability (set) or absent (remove)
C21_SetRemoveTouchOnlyTheKey ==
    [][SetOrRemoveReturns =>
         LET n == lastT'.node
             m == lastT'.ret
             k == lastT'.arg.key
             cn == StateAfter(n).captures
             cm == StateAfter(m).captures
         IN /\ m # n
            /\ m \notin 1..Len(nodes)
            /\ StateAfter(m).text = StateAfter(n).text
            /\ StateAfter(n) = states[nodes[n].state]
            /\ DOMAIN cm \ {k} = DOMAIN cn \ {k}
            /\ \A j \in DOMAIN cm \ {k} : cm[j] = cn[j]
            /\ lastT'.op = "set" =>
                  /\ k \in DOMAIN cm
                  /\ GetItem(StateAfter(m), k) = lastT'.arg.value
                  /\ NoLogProb(StateAfter(m), k)
            /\ lastT'.op = "remove" => k \notin DOMAIN cm
      ]_vars

\* C21 witness: a remove has returned a node made from a node that has text
\* and a capture entry under another key too
C21_Witness ==
    /\ lastT.op = "remove"
    /\ lastT.ret # 0
    /\ states[nodes[lastT.node].state].text # <<>>
    /\ DOMAIN states[nodes[lastT.node].state].captures \ {lastT.arg.key} # {}
    /\ lastT.arg.key \notin DOMAIN states[nodes[lastT.ret].state].captures

----------------------------------------------------------------------------
(* LLParser protocol properties *)

\* a call of advance has just ended
AdvanceEnds == ncalls' = ncalls + 1 /\ lastP'.op = "advance"

\* the report pairs a mask with a backtrack, with forced tokens or with stop
MaskBreaksProtocol(rep) ==
    rep.mask /\ (rep.r.stop \/ rep.r.backtrack # 0 \/ rep.r.ff_tokens # <<>>)

\* C22: an advance that returns a mask was reported backtrack 0, no ff_tokens
\* and no stop, and leaves a parser state with the tokens it had, no
\* ff_tokens, backtrack 0 and done false; an advance whose report pairs a mask
\* with a backtrack, with ff_tokens or with stop fails with an AssertionError
\* and the stored parser state stays the one it was
C22_MaskExcludesBacktrackForcedAndDone ==
    [][AdvanceEnds =>
         LET rep == lastP'.report
             returnsMask == ~PRaised(bp') /\ bp'.gen_data.present
         IN /\ returnsMask <=> (rep.mask /\ ~MaskBreaksProtocol(rep))
            /\ returnsMask =>
                  /\ rep.r.backtrack = 0 /\ rep.r.ff_tokens = <<>> /\ ~rep.r.stop
                  /\ bp'.state = ParserState(bp.state.tokens, <<>>, 0, FALSE)
                  /\ bp'.gen_data.tokens = bp.state.tokens
            /\ MaskBreaksProtocol(rep) =>
                  /\ bp'.exc = AssertionError("advance")
                  /\ bp'.state = bp.state
      ]_vars

\* C22 witness: after the parser state has moved on from the prompt, an
\* advance was refused for a report with a mask and a backtrack
C22_Witness ==
    /\ lastP.op = "advance"
    /\ bp.exc.type = "AssertionError"
    /\ lastP.report.mask
    /\ lastP.report.r.backtrack # 0
    /\ Len(bp.state.tokens) > Len(PromptTokens)

\* the sequence without its last b elements
Trimmed(tokens, b) ==
    IF b >= Len(tokens) THEN <<>> ELSE SubSeq(tokens, 1, Len(tokens) - b)

\* the parser state holds a backtrack or forced tokens the interpreter has
\* not been told of yet
ReplayPending(st) == st.backtrack # 0 \/ st.ff_tokens # <<>>

\* C23: an advance whose report has no mask hands back no GenData and leaves
\* a state whose tokens are the prior tokens without their last `backtrack`
\* ones, followed by the reported ff_tokens, and which records the reported
\* backtrack, ff_tokens and done; what a state records is what the next
\* advance passes to the interpreter, no call in between changing it
C23_NoMaskTrimsThenAppends ==
    [][/\ (AdvanceEnds /\ ~lastP'.report.mask) =>
             LET r == lastP'.report.r
             IN /\ ~PRaised(bp')
                /\ ~bp'.gen_data.present
                /\ bp'.state.tokens = Trimmed(bp.state.tokens, r.backtrack) \o r.ff_tokens
                /\ bp'.state.ff_tokens = r.ff_tokens
                /\ bp'.state.backtrack = r.backtrack
                /\ bp'.state.done = (r.stop)
       /\ AdvanceEnds =>
             /\ lastP'.sent.backtrack = bp.state.backtrack
             /\ lastP'.sent.ff_tokens = bp.state.ff_tokens
       /\ (ncalls' = ncalls + 1 /\ lastP'.op # "advance" /\ ReplayPending(bp.state)) =>
             bp'.state = bp.state
      ]_vars

\* C23 witness: an advance with a backtrack and forced tokens and no mask,
\* made on a state that held tokens still to be passed on, has kept some of
\* the prior tokens
C23_Witness ==
    /\ lastP.op = "advance"
    /\ ~lastP.report.mask
    /\ lastP.report.r.backtrack # 0
    /\ lastP.report.r.ff_tokens # <<>>
    /\ lastP.sent.ff_tokens # <<>>
    /\ Len(bp.state.tokens) > Len(lastP.report.r.ff_tokens)
    /\ ~bp.gen_data.present

----------------------------------------------------------------------------
(* ByteParser cursor properties *)

\* a call on the ByteParser has just ended
ParserCallEnds == ncalls' = ncalls + 1 /\ lastP'.op \in {"consume_bytes", "matched"}

\* C24: the cursor stays within the committed buffer; a call leaves the
\* buffer it found as a prefix of the buffer it leaves; the cursor moves only
\* forward, one position for each byte of the caller that equals the buffer's
\* byte at the cursor, and stops at the first byte that does not (or that
\* finds nothing there), so the buffer up to the cursor is the bytes fed
C24_CursorFollowsFedBytes ==
    [][ParserCallEnds =>
         LET bts == lastP'.bts
             k == bp'.pos - bp.pos
         IN /\ 0 <= bp.pos /\ bp.pos <= Len(bp.bytes)
            /\ 0 <= bp'.pos /\ bp'.pos <= Len(bp'.bytes)
            /\ IsPrefix(bp.bytes, bp'.bytes)
            /\ k \in 0..Len(bts)
            /\ \A i \in 1..k : bp'.bytes[bp.pos + i] = bts[i]
            /\ SubSeq(bp'.bytes, 1, bp'.pos) = Consumed \o SubSeq(bts, 1, k)
            /\ k < Len(bts) =>
                  /\ PRaised(bp')
                  /\ \/ bp'.pos = Len(bp'.bytes)
                     \/ bp'.bytes[bp'.pos + 1] # bts[k + 1]
            /\ k = Len(bts) => ~PRaised(bp')
      ]_vars

\* C24 witness: a call fed a byte at the end of the buffer, which the grammar
\* then extended, and failed on its next byte with the cursor inside the
\* buffer
C24_Witness ==
    /\ lastP.op = "consume_bytes"
    /\ lastP.pos = Len(lastP.bytes)
    /\ bp.pos > lastP.pos
    /\ bp.pos < Len(bp.bytes)
    /\ bp.exc.type = "ParserException"

----------------------------------------------------------------------------
(* Block reconciliation *)

TableBlocks(d) == {d[i][1] : i \in 1..Len(d)}
TupleBlocks(t) == {t[i] : i \in 1..Len(t)}

\* the text a block's closer adds to a node
CloserText(block) ==
    IF BlockDef[block].closer.kind = "str" THEN BlockDef[block].closer.text ELSE <<>>

\* the length of the closers of the blocks of table d, from entry i on, that
\* are not in the ambient tuple t: the table is gone through last entry first
RECURSIVE ClosersFrom(_, _, _)
ClosersFrom(d, t, i) ==
    IF i > Len(d) THEN 0
    ELSE (IF d[i][1] \in TupleBlocks(t) THEN 0 ELSE Len(CloserText(d[i][1])))
           + ClosersFrom(d, t, i + 1)

\* the length of the openers of the blocks of t before entry j that are not
\* in table d
RECURSIVE OpenersBefore(_, _, _)
OpenersBefore(d, t, j) ==
    IF j <= 1 THEN 0
    ELSE (IF t[j - 1] \in TableBlocks(d) THEN 0 ELSE Len(OpenerText(t[j - 1])))
           + OpenersBefore(d, t, j - 1)

\* the text has the fragment right after its first `start` elements
HasAt(text, start, frag) ==
    /\ start >= 0
    /\ start + Len(frag) <= Len(text)
    /\ SubSeq(text, start + 1, start + Len(frag)) = frag

\* the value appended writes a capture under the name itself
WritesCapture(other, name) ==
    other.kind = "ast"
        /\ \E i \in 1..Len(other.chunks) :
              other.chunks[i].kind = "CaptureOutput" /\ other.chunks[i].name = name

\* the blocks locally active on node n, with their start offsets: those that
\* have been applied to it.  A model made by Model.__init__ starts with an
\* empty table and every operation on it returns another node, so none has
\* been applied to it; for a node an operation returned it is the table the
\* node holds
LocallyActive(n) == IF nodes[n].parent = 0 THEN <<>> ELSE dicts[nodes[n].ab]

\* C25: an append that returns, made on a node with the blocks of d locally
\* active while the blocks of t are globally active, has closed each block
\* of d that is not in t (closer applied, the text from its start offset to
\* the length then recorded under its name, entry removed), has opened each
\* block of t that was not in d (start offset the length at that moment,
\* opener applied after it), and has kept the others with their offsets:
\* the blocks of the table of the node returned are those of t
C25_AppendReconcilesBlocks ==
    [][AppendReturns =>
         LET n == lastT'.node
             m == lastT'.ret
             d == LocallyActive(n)
             t == active_blocks
             before == states[nodes[n].state].text
             st == StateAfter(m)
             dm == dicts'[nodes'[m].ab]
             base == Len(before) + ClosersFrom(d, t, 1)
         IN /\ TableBlocks(dm) = TupleBlocks(t)
            /\ IsPrefix(before, st.text)
            /\ \A i \in 1..Len(d) :
                  LET b == d[i][1]
                      end == Len(before) + ClosersFrom(d, t, i)
                  IN IF b \in TupleBlocks(t)
                     THEN StartOf(dm, b) = d[i][2]
                     ELSE /\ HasAt(st.text, end - Len(CloserText(b)), CloserText(b))
                          /\ (BlockDef[b].name # NoName
                                 /\ ~WritesCapture(lastT'.arg, BlockDef[b].name))
                             => /\ BlockDef[b].name \in DOMAIN st.captures
                                /\ end <= Len(st.text)
                                /\ GetItem(st, BlockDef[b].name)
                                     = StrVal(SubSeq(st.text, d[i][2] + 1, end))
            /\ \A j \in 1..Len(t) :
                  t[j] \notin TableBlocks(d) =>
                     LET start == base + OpenersBefore(d, t, j)
                     IN /\ StartOf(dm, t[j]) = start
                        /\ HasAt(st.text, start, OpenerText(t[j]))
      ]_vars

----------------------------------------------------------------------------
(* Node identities *)

\* C26: every node has an identity no other node has, and a node made from
\* another records that node's identity as its parent's, also when two
\* threads make nodes at the same time
C26_IdentitiesDistinctAndParentRecorded ==
    /\ \A i \in 1..Len(nodes) : \A j \in 1..Len(nodes) :
          i # j => nodes[i].id # nodes[j].id
    /\ \A i \in 1..Len(nodes) :
          nodes[i].parent # 0 => nodes[i].parent_id = nodes[nodes[i].parent].id

----------------------------------------------------------------------------
(* Unsupported chunks *)

\* the chunk kinds a node accepts: literal input, generated text, capture
\* event, role opener and role closer
AcceptedKinds == {"LiteralInput", "TextOutput", "CaptureOutput",
                  "RoleOpenerInput", "RoleCloserInput"}

\* the value yields a chunk of a kind outside the accepted ones
YieldsOtherKind(v) ==
    v.kind = "ast" /\ \E i \in 1..Len(v.chunks) : v.chunks[i].kind \notin AcceptedKinds

\* the worker's chain has run
ChainHasRun == wpc \in {"put", "exiting", "exited"}

\* C27: a chain runs to its end without an 'unsupported chunk' error exactly
\* when every chunk it yields is of an accepted kind; when it yields a chunk
\* of another kind it fails with the 'unsupported chunk' error, and the node
\* the chunk was being applied to has no entry in the trace and is not among
\* the nodes sent to the stream's queue
C27_UnsupportedChunkLeavesNoNode ==
    ChainHasRun =>
       IF YieldsOtherKind(stream.grammar)
       THEN /\ wexc.type = "NotImplementedError"
            /\ wexc.msg = "Unsupported chunk type"
            /\ \A i \in 1..Len(trace) : trace[i].id # wexc.at
            /\ \A i \in 1..Len(wput) :
                  wput[i].kind = "node" => nodes[wput[i].ref].id # wexc.at
            /\ \A i \in 1..Len(outbox) : nodes[outbox[i]].id # wexc.at
       ELSE wexc.msg # "Unsupported chunk type"

----------------------------------------------------------------------------
(* The hand-off queue *)

\* the consumer is inside its iteration
Iterating == cpc \in {"get", "check", "yielded", "join"}

\* C28: an iteration has one worker thread, and that worker is the only
\* producer of the stream's queue: every item in the queue and every event
\* the iteration has yielded was put there by the worker, so no node made on
\* the consumer's own thread during the iteration is ever in the queue
C28_OnlyTheWorkerProduces ==
    /\ Iterating => wpc # "none"
    /\ \A i \in 1..Len(events) : events[i].by = "worker"
    /\ \A i \in 1..Len(yielded) : yielded[i].by = "worker"

----------------------------------------------------------------------------
(* Progress reports *)

\* the bytes of the text fragments among the items, in order
RECURSIVE TextBytes(_)
TextBytes(items) ==
    IF items = <<>> THEN <<>>
    ELSE (IF Head(items).object = "text" THEN Head(items).bts ELSE <<>>)
            \o TextBytes(Tail(items))

\* the token counts of the text fragments among the items, added up
RECURSIVE TextTokens(_)
TextTokens(items) ==
    IF items = <<>> THEN 0
    ELSE (IF Head(items).object = "text" THEN Head(items).num_tokens ELSE 0)
            + TextTokens(Tail(items))

\* C29: the response made from a progress report has as new_bytes the bytes
\* of the report's text fragments, concatenated in report order, and as
\* new_token_count the sum of their token counts; captures (and entries of
\* other kinds) add nothing to either
C29_ResponseReducesTextFragments ==
    lastP.op = "_handle_progress" =>
       /\ lastP.response.new_bytes = TextBytes(lastP.items)
       /\ lastP.response.new_token_count = TextTokens(lastP.items)

\* C29 witness: a report with two different text fragments and a capture
\* between them
C29_Witness ==
    /\ lastP.op = "_handle_progress"
    /\ Len(lastP.items) = 3
    /\ lastP.items[1].object = "text"
    /\ lastP.items[2].object = "capture"
    /\ lastP.items[3].object = "text"
    /\ lastP.items[1].bts # lastP.items[3].bts
    /\ lastP.response.new_bytes = <<98, 97, 97>>

----------------------------------------------------------------------------
(* The cached mask *)

\* C30: while the ByteParser holds a mask (gen_data is present) the state of
\* its LLParser has done false, backtrack 0 and no ff_tokens, so the
\* consume_token that consume_bytes issues at the end of the buffer never
\* fails its assertions, whatever consume_bytes and matched calls came before
C30_CachedMaskMeansTokenAwaited ==
    /\ bp.gen_data.present =>
          /\ ~bp.state.done
          /\ bp.state.backtrack = 0
          /\ bp.state.ff_tokens = <<>>
    /\ ~(bp.exc.type = "AssertionError" /\ bp.exc.where = "consume_token")

\* C30 witness: a call that began at the end of a non-empty buffer, with the
\* mask cached by an earlier call, has passed a byte on as a token
C30_Witness ==
    /\ lastP.op = "consume_bytes"
    /\ lastP.pos = Len(lastP.bytes)
    /\ lastP.pos >= 1
    /\ bp.fed >= 1
    /\ ~PRaised(bp)

----------------------------------------------------------------------------
(* Tokens fed within one call *)

\* the calls of consume_token one call on the ByteParser has made: the ones
\* that returned and the one that raised, if any
TokenCalls(B) ==
    B.fed + (IF B.exc = AssertionError("consume_token") THEN 1 ELSE 0)

\* C31: a call consume_bytes(bts) ends having called consume_token at most
\* len(bts) times; every byte it fed as a token it then found in the buffer
\* and passed with the cursor, so the tokens fed are no more than the
\* positions the cursor moved, and each of them is one more parser token
C31_OneTokenPerInputByte ==
    [][ParserCallEnds =>
         LET bts == lastP'.bts
             k == bp'.pos - bp.pos
         IN /\ TokenCalls(bp') <= Len(bts)
            /\ bp'.fed <= k
            /\ k <= Len(bts)
            /\ bp'.fed > 0 =>
                  /\ bp'.pos > Len(bp.bytes)
                  /\ Len(bp'.state.tokens) >= Len(bp.state.tokens) + bp'.fed
      ]_vars

\* C31 witness: a call of two bytes fed both as tokens, each once, and
\* returned with the cursor past both
C31_Witness ==
    /\ lastP.op = "consume_bytes"
    /\ Len(lastP.bts) = 2
    /\ bp.fed = 2
    /\ bp.pos = lastP.pos + 2
    /\ ~PRaised(bp)

----------------------------------------------------------------------------
(* The end of an iteration *)

\* the iteration has ended: the generator returned (after the sentinel or on
\* the timeout path) or raised the worker's exception
IterationEnded == cpc \in {"done", "raised"}

\* C32: once the iteration of a stream has ended, by the sentinel, by the
\* worker's exception raised again or by the timeout path, _event_queues of
\* the consumer's context is what it was before the iteration began, and an
\* operation of the consumer after the end puts nothing on the stream's queue
C32_EndOfIterationRestoresSubscribers ==
    [][/\ IterationEnded' => event_queues' = token'
       /\ IterationEnded /\ nops' = nops + 1 => events' = events
      ]_vars

----------------------------------------------------------------------------
(* The order of closers and openers *)

\* the closers one reconciliation writes for table d under the ambient tuple
\* t: the entries of d from the i-th back to the first, last opened first
RECURSIVE ClosedFragments(_, _, _)
ClosedFragments(d, t, i) ==
    IF i = 0 THEN <<>>
    ELSE (IF d[i][1] \in TupleBlocks(t) THEN <<>> ELSE CloserText(d[i][1]))
           \o ClosedFragments(d, t, i - 1)

\* the openers it writes after them: the entries of t from the j-th on,
\* outermost first
RECURSIVE OpenedFragments(_, _, _)
OpenedFragments(d, t, j) ==
    IF j > Len(t) THEN <<>>
    ELSE (IF t[j] \in TableBlocks(d) THEN <<>> ELSE OpenerText(t[j]))
           \o OpenedFragments(d, t, j + 1)

\* the blocks whose opener, or closer, is the one element c (the fragments of
\* BlockDef are one element long and differ from the text the caller appends)
OpenedBy(c) == {b \in Blocks : OpenerText(b) = <<c>>}
ClosedBy(c) == {b \in Blocks : CloserText(b) = <<c>>}

\* the text from element i on is properly nested over the blocks of `open`,
\* opened and not yet closed, innermost last: a closer closes the innermost
\* open block
RECURSIVE NestedFrom(_, _, _)
NestedFrom(text, i, open) ==
    IF i > Len(text) THEN TRUE
    ELSE IF OpenedBy(text[i]) # {}
    THEN NestedFrom(text, i + 1, Append(open, CHOOSE b \in OpenedBy(text[i]) : TRUE))
    ELSE IF ClosedBy(text[i]) # {}
    THEN /\ open # <<>>
         /\ open[Len(open)] \in ClosedBy(text[i])
         /\ NestedFrom(text, i + 1, SubSeq(open, 1, Len(open) - 1))
    ELSE NestedFrom(text, i + 1, open)

ProperlyNested(text) == NestedFrom(text, 1, <<>>)

\* C33: an append that returns has written, right after the text of the node
\* it was made on, the closers of the blocks of the node's table that are no
\* longer in the ambient tuple, last opened first, and after all of them the
\* openers of the blocks of the tuple that were not in the table, in the
\* tuple's order; the closers and openers in the text of the node returned
\* are properly nested
C33_ClosersThenOpenersNested ==
    [][AppendReturns =>
         LET n == lastT'.node
             m == lastT'.ret
             d == dicts[nodes[n].ab]
             t == active_blocks
             before == states[nodes[n].state].text
             after == StateAfter(m).text
         IN /\ HasAt(after, Len(before),
                     ClosedFragments(d, t, Len(d)) \o OpenedFragments(d, t, 1))
            /\ ProperlyNested(before) => ProperlyNested(after)
      ]_vars

====
